---------------------------- MODULE Spec2Model ----------------------------
(***************************************************************************)
(* A model of the esp-partition-table crate: the record codec (entry.rs,   *)
(* types.rs, utils.rs), the streaming reader and writer state machines     *)
(* (table.rs) and the embedded-storage adapter (estor.rs).                 *)
(*                                                                         *)
(* Conventions.                                                            *)
(*  - A byte is a number in 0..255, a buffer a sequence of bytes; a        *)
(*    PartitionBuffer has 32 of them.                                      *)
(*  - A u32 that is an address (offset, end) is a natural number; the      *)
(*    inputs stay far below 2^31, so no address arithmetic wraps.          *)
(*  - PartitionEntry.size is a usize, whose width depends on the target:   *)
(*    it is kept as its little-endian bytes, build.usize_bytes of them     *)
(*    (4 on the ESP32, 8 on the host that runs the tests), so that the     *)
(*    cast `as u32` is a truncation and `as usize` a zero extension.       *)
(*  - The crate is modelled with its `md5` and `embedded-storage` features *)
(*    enabled; the `heapless` feature is a build choice (build.heapless).  *)
(*  - Result<T, E> is Ok(v) / Err(e); Option<T> is Some(v) / None.          *)
(***************************************************************************)
EXTENDS Integers, Sequences, FiniteSets

VARIABLES
    build,    \* the build: [heapless, usize_bytes]
    codec,    \* an entry and a buffer under the record codec
    reader,   \* a PartitionReaderState and what its caller saw
    writer,   \* a PartitionWriterState and what its caller saw
    stor      \* a storage device and an adapter call in progress

vars == <<build, codec, reader, writer, stor>>

(***************************************************************************)
(* Results, options, errors                                                *)
(***************************************************************************)
Ok(v) == [ok |-> TRUE, val |-> v]
Err(e) == [ok |-> FALSE, err |-> e]
Some(v) == <<v>>
None == <<>>

\* result.rs: PartitionError; arg is the payload byte (0 when the kind has none)
PErr(kind) == [kind |-> kind, arg |-> 0]
PErrArg(kind, b) == [kind |-> kind, arg |-> b]
InvalidMagic == PErr("InvalidMagic")
InvalidType(b) == PErrArg("InvalidType", b)
InvalidSubType(b) == PErrArg("InvalidSubType", b)
InvalidUserType(b) == PErrArg("InvalidUserType", b)
InvalidOtaNumber(b) == PErrArg("InvalidOtaNumber", b)
InvalidString == PErr("InvalidString")
InvalidAlignment == PErr("InvalidAlignment")
InvalidMd5 == PErr("InvalidMd5")
NotEnoughData == PErr("NotEnoughData")
TooManyData == PErr("TooManyData")

IsErr(res, e) == ~res.ok /\ res.err = e

(***************************************************************************)
(* Bytes                                                                   *)
(***************************************************************************)
Fill(b, n) == [i \in 1..n |-> b]
Take(s, n) == SubSeq(s, 1, n)
Drop(s, n) == SubSeq(s, n + 1, Len(s))

\* u32::to_le_bytes / u32::from_le_bytes, for values below 2^31
Le32(n) == <<n % 256, (n \div 256) % 256, (n \div 65536) % 256, (n \div 16777216) % 256>>
FromLe32(b) == b[1] + 256 * b[2] + 65536 * b[3] + 16777216 * b[4]

\* a usize from a small number, as its little-endian bytes
Usize(n) == Le32(n) \o Fill(0, build.usize_bytes - 4)
\* a conversion that saturates at u32::MAX where the cast wraps
UsizeAsU32Le_Saturating(x) ==
    IF \A i \in 5..Len(x) : x[i] = 0 THEN Take(x, 4) ELSE Fill(255, 4)
\* `x as u32` of a usize, then to_le_bytes: the low four bytes
UsizeAsU32Le(x) == Take(x, 4)
\* u32::from_le_bytes, then `as usize`: zero extension
U32LeAsUsize(b) == b \o Fill(0, build.usize_bytes - 4)

(***************************************************************************)
(* types.rs                                                                *)
(***************************************************************************)
\* AppPartitionType
Factory == [tag |-> "Factory", n |-> 0]
Ota(n) == [tag |-> "Ota", n |-> n]
Test == [tag |-> "Test", n |-> 0]

\* PartitionType; every value has the same shape so that any two compare
App(sub) == [tag |-> "App", sub |-> sub, raw |-> 0]
Data(name) == [tag |-> "Data", sub |-> [tag |-> name, n |-> 0], raw |-> 0]
Any == [tag |-> "Any", sub |-> [tag |-> "-", n |-> 0], raw |-> 0]
User(t, s) == [tag |-> "User", sub |-> [tag |-> "-", n |-> s], raw |-> t]

\* DataPartitionType and its #[repr(u8)] codes
DataCodes ==
    {<<"Ota", 0>>, <<"Phy", 1>>, <<"Nvs", 2>>, <<"CoreDump", 3>>, <<"NvsKeys", 4>>,
     <<"EfuseEm", 5>>, <<"Undefined", 6>>, <<"EspHttpd", 128>>, <<"Fat", 129>>,
     <<"SpiFfs", 130>>, <<"LittleFS", 131>>}

\* impl TryFrom<u8> for AppPartitionType
AppFromU8(raw) ==
    IF raw = 0 THEN Ok(Factory)
    ELSE IF raw \in 16..31 THEN Ok(Ota(raw - 16))
    ELSE IF raw = 32 THEN Ok(Test)
    ELSE Err(InvalidSubType(raw))

\* the conversion with an Ota range that is one slot too long
AppToU8_Through16(ty) ==
    IF ty.tag = "Factory" THEN Ok(0)
    ELSE IF ty.tag = "Ota" THEN
        IF ty.n \in 0..16 THEN Ok(ty.n + 16) ELSE Err(InvalidOtaNumber(ty.n))
    ELSE Ok(32)

\* impl TryFrom<AppPartitionType> for u8
AppToU8(ty) ==
    IF ty.tag = "Factory" THEN Ok(0)
    ELSE IF ty.tag = "Ota" THEN
        IF ty.n \in 0..15 THEN Ok(ty.n + 16) ELSE Err(InvalidOtaNumber(ty.n))
    ELSE Ok(32)

\* impl TryFrom<u8> for DataPartitionType
DataFromU8(raw) ==
    IF \E c \in DataCodes : c[2] = raw
    THEN Ok((CHOOSE c \in DataCodes : c[2] = raw)[1])
    ELSE Err(InvalidSubType(raw))

\* impl From<DataPartitionType> for u8
DataToU8(name) == (CHOOSE c \in DataCodes : c[1] = name)[2]

\* the conversion with a User range that starts one type byte early
TypeFromPair_UserFrom3F(raw_type, raw_subtype) ==
    IF raw_type = 0 THEN
        LET s == AppFromU8(raw_subtype) IN IF s.ok THEN Ok(App(s.val)) ELSE s
    ELSE IF raw_type = 1 THEN
        LET s == DataFromU8(raw_subtype) IN IF s.ok THEN Ok(Data(s.val)) ELSE s
    ELSE IF raw_type \in 63..254 THEN Ok(User(raw_type, raw_subtype))
    ELSE IF raw_type = 255 THEN Ok(Any)
    ELSE Err(InvalidType(raw_type))

\* impl TryFrom<(u8, u8)> for PartitionType
TypeFromPair(raw_type, raw_subtype) ==
    IF raw_type = 0 THEN
        LET s == AppFromU8(raw_subtype) IN IF s.ok THEN Ok(App(s.val)) ELSE s
    ELSE IF raw_type = 1 THEN
        LET s == DataFromU8(raw_subtype) IN IF s.ok THEN Ok(Data(s.val)) ELSE s
    ELSE IF raw_type \in 64..254 THEN Ok(User(raw_type, raw_subtype))
    ELSE IF raw_type = 255 THEN Ok(Any)
    ELSE Err(InvalidType(raw_type))

\* the conversion without the range check of the User arm
TypeToPair_UserUnchecked(ty) ==
    IF ty.tag = "App" THEN
        LET s == AppToU8(ty.sub) IN IF s.ok THEN Ok(<<0, s.val>>) ELSE s
    ELSE IF ty.tag = "Data" THEN Ok(<<1, DataToU8(ty.sub.tag)>>)
    ELSE IF ty.tag = "User" THEN Ok(<<ty.raw, ty.sub.n>>)
    ELSE Ok(<<255, 0>>)

\* impl TryFrom<PartitionType> for (u8, u8)
TypeToPair(ty) ==
    IF ty.tag = "App" THEN
        LET s == AppToU8(ty.sub) IN IF s.ok THEN Ok(<<0, s.val>>) ELSE s
    ELSE IF ty.tag = "Data" THEN Ok(<<1, DataToU8(ty.sub.tag)>>)
    ELSE IF ty.tag = "User" THEN
        IF ty.raw \in 64..254 THEN Ok(<<ty.raw, ty.sub.n>>)
        ELSE Err(InvalidUserType(ty.raw))
    ELSE Ok(<<255, 0>>)

APP_ALIGN == 65536
DATA_ALIGN == 4096

\* PartitionType::align
Align(ty) == IF ty.tag = "App" THEN APP_ALIGN ELSE DATA_ALIGN

\* PartitionType::check_offset: offset & (align - 1) == 0, align a power of two
CheckOffset(ty, offset) ==
    IF offset % Align(ty) = 0 THEN Ok(0) ELSE Err(InvalidAlignment)

(***************************************************************************)
(* utils.rs                                                                *)
(***************************************************************************)
MAX_NAME_LEN == 16

\* the 16 bytes untrimmed, padding included
name_trim_Whole(data) == data

RECURSIVE name_trim(_)
\* data.split(|c| *c == 0).next(): the bytes before the first NUL
name_trim(data) ==
    IF data = <<>> \/ Head(data) = 0 THEN <<>>
    ELSE <<Head(data)>> \o name_trim(Tail(data))

IsCont(b) == b \in 128..191

RECURSIVE Utf8Valid(_)
\* core::str::from_utf8(..).is_ok(): well-formed UTF-8, no overlong forms,
\* no surrogates, nothing above U+10FFFF
Utf8Valid(s) ==
    IF s = <<>> THEN TRUE
    ELSE LET b == Head(s) IN
        IF b < 128 THEN Utf8Valid(Tail(s))
        ELSE IF b \in 194..223 THEN
            Len(s) >= 2 /\ IsCont(s[2]) /\ Utf8Valid(Drop(s, 2))
        ELSE IF b \in 224..239 THEN
            /\ Len(s) >= 3
            /\ s[2] \in (IF b = 224 THEN 160..191 ELSE IF b = 237 THEN 128..159 ELSE 128..191)
            /\ IsCont(s[3])
            /\ Utf8Valid(Drop(s, 3))
        ELSE IF b \in 240..244 THEN
            /\ Len(s) >= 4
            /\ s[2] \in (IF b = 240 THEN 144..191 ELSE IF b = 244 THEN 128..143 ELSE 128..191)
            /\ IsCont(s[3])
            /\ IsCont(s[4])
            /\ Utf8Valid(Drop(s, 4))
        ELSE FALSE

\* name_from: the trimmed name as a str, or InvalidString
name_from(data) ==
    IF Utf8Valid(name_trim(data)) THEN Ok(name_trim(data)) ELSE Err(InvalidString)

\* name_into(data, name): [res, data], data being the 16 bytes afterwards
name_into(data, name) ==
    IF Len(name) > MAX_NAME_LEN THEN [res |-> Err(InvalidString), data |-> data]
    ELSE [res |-> Ok(0), data |-> name \o Fill(0, MAX_NAME_LEN - Len(name))]

(***************************************************************************)
(* entry.rs                                                                *)
(***************************************************************************)
SIZE == 32
ENTRY_MAGIC == <<170, 80>>          \* PartitionEntry::MAGIC = [0xAA, 0x50]
MD5_MAGIC == <<235, 235>>           \* PartitionMd5::MAGIC = [0xeb, 0xeb]
RESERVED_SIZE == 14
RESERVED_DATA == 255

\* struct PartitionEntry. name is a String<16> (its bytes) in the heapless
\* build and a [u8; 16] otherwise; size is a usize (its bytes)
Entry(type_, offset, size, name, encrypted) ==
    [type_ |-> type_, offset |-> offset, size |-> size, name |-> name,
     encrypted |-> encrypted]

\* PartitionEntry::new, name a &str (valid UTF-8 of any length)
EntryNew(type_, offset, size, name, encrypted) ==
    IF build.heapless THEN
        IF Len(name) > MAX_NAME_LEN THEN Err(InvalidString)
        ELSE Ok(Entry(type_, offset, size, name, encrypted))
    ELSE
        LET n == name_into(Fill(0, MAX_NAME_LEN), name) IN
        IF n.res.ok THEN Ok(Entry(type_, offset, size, n.data, encrypted))
        ELSE n.res

\* PartitionEntry::set_offset(&mut self, offset): [entry, res]
EntrySetOffset(e, offset) ==
    IF ~CheckOffset(e.type_, offset).ok
    THEN [entry |-> e, res |-> CheckOffset(e.type_, offset)]
    ELSE [entry |-> [e EXCEPT !.offset = offset], res |-> Ok(0)]

\* PartitionEntry::set_name(&mut self, name): [entry, res]
EntrySetName(e, name) ==
    IF build.heapless THEN
        IF Len(name) > MAX_NAME_LEN THEN [entry |-> e, res |-> Err(InvalidString)]
        ELSE [entry |-> [e EXCEPT !.name = name], res |-> Ok(0)]
    ELSE
        LET n == name_into(e.name, name)
        IN [entry |-> [e EXCEPT !.name = n.data], res |-> n.res]

\* PartitionEntry::name
EntryName(e) == IF build.heapless THEN e.name ELSE name_trim(e.name)

\* from_bytes with the offset and size fields read from each other's place
EntryFromBytes_Swapped(data) ==
    IF Take(data, 2) # ENTRY_MAGIC THEN Err(InvalidMagic)
    ELSE LET type_ == TypeFromPair(data[3], data[4])
             name_str == name_from(SubSeq(data, 13, 28))
         IN IF ~type_.ok THEN type_
            ELSE IF ~name_str.ok THEN name_str
            ELSE Ok(Entry(type_.val, FromLe32(SubSeq(data, 9, 12)) % 65536,
                          U32LeAsUsize(SubSeq(data, 5, 8)),
                          IF build.heapless THEN name_str.val ELSE SubSeq(data, 13, 28),
                          data[29] % 2 # 0))

\* PartitionEntry::from_bytes
EntryFromBytes(data) ==
    IF Take(data, 2) # ENTRY_MAGIC THEN Err(InvalidMagic)
    ELSE LET type_ == TypeFromPair(data[3], data[4])
             offset == FromLe32(SubSeq(data, 5, 8))
             size == U32LeAsUsize(SubSeq(data, 9, 12))
             name_data == SubSeq(data, 13, 28)
             name_str == name_from(name_data)
             encrypted == data[29] % 2 # 0      \* flags & 0x01 != 0
         IN IF ~type_.ok THEN type_
            ELSE IF ~name_str.ok THEN name_str
            ELSE Ok(Entry(type_.val, offset, size,
                          IF build.heapless THEN name_str.val ELSE name_data,
                          encrypted))

\* to_bytes with the magic written before the alignment check
EntryToBytes_MagicFirst(e, data) ==
    LET d1 == ENTRY_MAGIC \o Drop(data, 2)
        ty == TypeToPair(e.type_)
    IN IF ~CheckOffset(e.type_, e.offset).ok
       THEN [res |-> CheckOffset(e.type_, e.offset), data |-> d1]
       ELSE IF ~ty.ok THEN [res |-> ty, data |-> d1]
       ELSE [res |-> Ok(0),
             data |-> Take(d1, 2) \o ty.val \o Le32(e.offset) \o UsizeAsU32Le(e.size)
                      \o (IF build.heapless
                          THEN name_into(Fill(0, MAX_NAME_LEN), e.name).data
                          ELSE e.name)
                      \o Le32(IF e.encrypted THEN 1 ELSE 0)]

\* PartitionEntry::to_bytes(&self, data): [res, data], data being the
\* buffer afterwards (the fields written before an error stay written)
EntryToBytes(e, data) ==
    IF ~CheckOffset(e.type_, e.offset).ok
    THEN [res |-> CheckOffset(e.type_, e.offset), data |-> data]
    ELSE LET d1 == ENTRY_MAGIC \o Drop(data, 2)
             ty == TypeToPair(e.type_)
         IN IF ~ty.ok THEN [res |-> ty, data |-> d1]
            ELSE LET d2 == Take(d1, 2) \o ty.val \o Le32(e.offset)
                           \o UsizeAsU32Le(e.size) \o Drop(d1, 12)
                     nm == IF build.heapless
                           THEN name_into(SubSeq(d2, 13, 28), e.name)
                           ELSE [res |-> Ok(0), data |-> e.name]
                 IN IF ~nm.res.ok THEN [res |-> nm.res, data |-> d2]
                    ELSE [res |-> Ok(0),
                          data |-> Take(d2, 12) \o nm.data
                                   \o Le32(IF e.encrypted THEN 1 ELSE 0)]

\* from_bytes that looks at the magic only
Md5FromBytes_MagicOnly(data) ==
    IF Take(data, 2) # MD5_MAGIC THEN Err(InvalidMagic)
    ELSE Ok(SubSeq(data, 17, 32))

\* PartitionMd5::from_bytes: the 16 digest bytes
Md5FromBytes(data) ==
    IF Take(data, 2) # MD5_MAGIC THEN Err(InvalidMagic)
    ELSE IF \E i \in 3..(2 + RESERVED_SIZE) : data[i] # RESERVED_DATA
    THEN Err(InvalidMagic)
    ELSE Ok(SubSeq(data, 17, 32))

\* PartitionMd5::to_bytes(&self, data): [res, data]
Md5ToBytes(md5, data) ==
    [res |-> Ok(0),
     data |-> MD5_MAGIC \o Fill(RESERVED_DATA, RESERVED_SIZE) \o md5]

(***************************************************************************)
(* The md5 crate: Context::new, consume, compute.  A context is the bytes  *)
(* consumed so far; the digest is a 16-byte function of them (a stand-in   *)
(* for MD5: deterministic, and no more injective than MD5 is).             *)
(***************************************************************************)
Md5ContextNew == <<>>
Md5Consume(ctx, data) == ctx \o data

\* the sum of (ctx[i] + 1) * (1 + ((m * i) % 251)) over i in lo..hi, by halves
RECURSIVE Md5Sum(_, _, _, _)
Md5Sum(ctx, m, lo, hi) ==
    IF lo > hi THEN 0
    ELSE IF lo = hi THEN (ctx[lo] + 1) * (1 + ((m * lo) % 251))
    ELSE LET mid == (lo + hi) \div 2
         IN Md5Sum(ctx, m, lo, mid) + Md5Sum(ctx, m, mid + 1, hi)

Md5Compute(ctx) ==
    Le32(Md5Sum(ctx, 37, 1, Len(ctx))) \o Le32(Len(ctx))
    \o Le32(Md5Sum(ctx, 101, 1, Len(ctx))) \o Le32(Md5Sum(ctx, 7, 1, Len(ctx)))

(***************************************************************************)
(* table.rs                                                                *)
(***************************************************************************)
DEFAULT_ADDR == 32768
MAX_SIZE == 4096

\* PartitionTable::new and max_entries
PartitionTable(addr, size) == [addr |-> addr, size |-> size]
max_entries(table) == table.size \div SIZE

\* PartitionReaderState::new; md5 is Err(context) while open, Ok(digest) once frozen
ReaderNew(offset, length, calc_md5) ==
    [offset |-> offset, end |-> offset + length, md5 |-> Err(Md5ContextNew),
     calc_md5 |-> calc_md5, stored_md5 |-> None, state |-> "Proc"]

\* PartitionReaderState::offset, is_done, stored_md5, actual_md5
ReaderOffset(r) == r.offset
ReaderIsDone(r) == r.state = "Done"
StoredMd5(r) == r.stored_md5
ActualMd5(r) == IF r.md5.ok THEN Some(r.md5.val) ELSE None

\* PartitionReaderState::check_md5
CheckMd5(r) ==
    IF StoredMd5(r) # None /\ ActualMd5(r) # None
    THEN Some(StoredMd5(r)[1] = ActualMd5(r)[1])
    ELSE None

\* check that looks at the cursor only and forgets the Done state
ReaderCheck_CursorOnly(r) ==
    IF r.offset >= r.end
    THEN [st |-> [r EXCEPT !.state = "Done"], res |-> Err(NotEnoughData)]
    ELSE [st |-> r, res |-> Ok(0)]

\* check that freezes the running digest when the region is exhausted
ReaderCheck_Freezes(r) ==
    LET r1 == IF r.offset >= r.end
              THEN [r EXCEPT !.state = "Done",
                             !.md5 = IF r.calc_md5 /\ ~r.md5.ok
                                     THEN Ok(Md5Compute(r.md5.err)) ELSE r.md5]
              ELSE r
    IN [st |-> r1, res |-> IF r1.state = "Done" THEN Err(NotEnoughData) ELSE Ok(0)]

\* PartitionReaderState::check: [st, res]
ReaderCheck(r) ==
    LET r1 == IF r.offset >= r.end THEN [r EXCEPT !.state = "Done"] ELSE r
    IN [st |-> r1, res |-> IF r1.state = "Done" THEN Err(NotEnoughData) ELSE Ok(0)]

\* the match with a checksum arm that feeds the record to the running digest
ReaderClassify_FeedsChecksum(r, buffer) ==
    IF Take(buffer, 2) = ENTRY_MAGIC THEN
        [st |-> IF r.calc_md5 /\ ~r.md5.ok
                THEN [r EXCEPT !.md5 = Err(Md5Consume(r.md5.err, buffer))]
                ELSE r,
         res |-> EntryFromBytes(buffer)]
    ELSE IF Take(buffer, 2) = MD5_MAGIC THEN
        LET m == Md5FromBytes(buffer) IN
        IF m.ok THEN [st |-> [r EXCEPT !.stored_md5 = Some(m.val),
                                       !.offset = r.offset + SIZE,
                                       !.md5 = IF r.calc_md5 /\ ~r.md5.ok
                                               THEN Err(Md5Consume(r.md5.err, buffer))
                                               ELSE r.md5],
                      res |-> Err(NotEnoughData)]
        ELSE [st |-> r, res |-> m]
    ELSE IF Take(buffer, 2) = <<255, 255>> THEN [st |-> r, res |-> Err(NotEnoughData)]
    ELSE [st |-> r, res |-> Err(InvalidMagic)]

\* the match with a checksum arm that feeds the record to the running
\* digest and leaves the cursor on it
ReaderClassify_ChecksumStays(r, buffer) ==
    IF Take(buffer, 2) = ENTRY_MAGIC THEN
        [st |-> IF r.calc_md5 /\ ~r.md5.ok
                THEN [r EXCEPT !.md5 = Err(Md5Consume(r.md5.err, buffer))]
                ELSE r,
         res |-> EntryFromBytes(buffer)]
    ELSE IF Take(buffer, 2) = MD5_MAGIC THEN
        LET m == Md5FromBytes(buffer) IN
        IF m.ok THEN [st |-> [r EXCEPT !.stored_md5 = Some(m.val),
                                       !.md5 = IF r.calc_md5 /\ ~r.md5.ok
                                               THEN Err(Md5Consume(r.md5.err, buffer))
                                               ELSE r.md5],
                      res |-> Err(NotEnoughData)]
        ELSE [st |-> r, res |-> m]
    ELSE IF Take(buffer, 2) = <<255, 255>> THEN [st |-> r, res |-> Err(NotEnoughData)]
    ELSE [st |-> r, res |-> Err(InvalidMagic)]

\* the match with its last two arms merged: any unknown magic ends the scan
\* the way erased flash does
ReaderClassify_UnknownEnds(r, buffer) ==
    IF Take(buffer, 2) = ENTRY_MAGIC THEN
        [st |-> IF r.calc_md5 /\ ~r.md5.ok
                THEN [r EXCEPT !.md5 = Err(Md5Consume(r.md5.err, buffer))]
                ELSE r,
         res |-> EntryFromBytes(buffer)]
    ELSE IF Take(buffer, 2) = MD5_MAGIC THEN
        LET m == Md5FromBytes(buffer) IN
        IF m.ok THEN [st |-> [r EXCEPT !.stored_md5 = Some(m.val),
                                       !.offset = r.offset + SIZE],
                      res |-> Err(NotEnoughData)]
        ELSE [st |-> r, res |-> m]
    ELSE [st |-> r, res |-> Err(NotEnoughData)]

\* the match on the first two bytes in PartitionReaderState::read: [st, res]
ReaderClassify(r, buffer) ==
    IF Take(buffer, 2) = ENTRY_MAGIC THEN
        [st |-> IF r.calc_md5 /\ ~r.md5.ok
                THEN [r EXCEPT !.md5 = Err(Md5Consume(r.md5.err, buffer))]
                ELSE r,
         res |-> EntryFromBytes(buffer)]
    ELSE IF Take(buffer, 2) = MD5_MAGIC THEN
        LET m == Md5FromBytes(buffer) IN
        IF m.ok THEN [st |-> [r EXCEPT !.stored_md5 = Some(m.val),
                                       !.offset = r.offset + SIZE],
                      res |-> Err(NotEnoughData)]
        ELSE [st |-> r, res |-> m]
    ELSE IF Take(buffer, 2) = <<255, 255>> THEN [st |-> r, res |-> Err(NotEnoughData)]
    ELSE [st |-> r, res |-> Err(InvalidMagic)]

\* the settling step with a cursor that stays on the entry just read
ReaderSettle_NoAdvance(r, result) ==
    IF ~result.ok THEN
        LET r1 == IF result.err = NotEnoughData /\ r.calc_md5 /\ ~r.md5.ok
                  THEN [r EXCEPT !.md5 = Ok(Md5Compute(r.md5.err))]
                  ELSE r
        IN [r1 EXCEPT !.state = "Done"]
    ELSE r

\* the settling step without the freeze of the running digest
ReaderSettle_NoFreeze(r, result) ==
    IF ~result.ok THEN [r EXCEPT !.state = "Done"]
    ELSE [r EXCEPT !.offset = r.offset + SIZE]

\* the settling step freezing the digest whether or not tracking is enabled
ReaderSettle_AlwaysFreeze(r, result) ==
    IF ~result.ok THEN
        LET r1 == IF result.err = NotEnoughData /\ ~r.md5.ok
                  THEN [r EXCEPT !.md5 = Ok(Md5Compute(r.md5.err))]
                  ELSE r
        IN [r1 EXCEPT !.state = "Done"]
    ELSE [r EXCEPT !.offset = r.offset + SIZE]

\* what PartitionReaderState::read does with the result of the match
ReaderSettle(r, result) ==
    IF ~result.ok THEN
        LET r1 == IF result.err = NotEnoughData /\ r.calc_md5 /\ ~r.md5.ok
                  THEN [r EXCEPT !.md5 = Ok(Md5Compute(r.md5.err))]
                  ELSE r
        IN [r1 EXCEPT !.state = "Done"]
    ELSE [r EXCEPT !.offset = r.offset + SIZE]

\* PartitionReaderState::read(&mut self, buffer): [st, res]
ReaderRead(r, buffer) ==
    LET c == ReaderCheck(r) IN
    IF ~c.res.ok THEN c
    ELSE LET m == ReaderClassify(c.st, buffer)
         IN [st |-> ReaderSettle(m.st, m.res), res |-> m.res]

\* PartitionWriterState::new
WriterNew(offset, length, write_md5) ==
    [offset |-> offset, end |-> offset + length, md5 |-> Err(Md5ContextNew),
     write_md5 |-> write_md5, state |-> "Init"]

\* PartitionWriterState::offset, is_done, actual_md5
WriterOffset(w) == w.offset
WriterIsDone(w) == w.state = "Done"
WriterActualMd5(w) == IF w.md5.ok THEN Some(w.md5.val) ELSE None

\* a check that arms the machine at every call and never advances
WriterCheck_NeverAdvance(w) ==
    LET w1 == IF w.offset >= w.end THEN [w EXCEPT !.state = "Done"] ELSE w
    IN IF w1.state \in {"Init", "Proc"}
       THEN [st |-> [w1 EXCEPT !.state = "Proc"], res |-> Ok(0)]
       ELSE [st |-> w1, res |-> Err(TooManyData)]

\* a check that advances the cursor from the first call on
WriterCheck_AdvanceFirst(w) ==
    LET w1 == IF w.offset >= w.end THEN [w EXCEPT !.state = "Done"] ELSE w
    IN IF w1.state \in {"Init", "Proc"}
       THEN [st |-> [w1 EXCEPT !.state = "Proc", !.offset = w1.offset + SIZE],
             res |-> Ok(0)]
       ELSE [st |-> w1, res |-> Err(TooManyData)]

\* PartitionWriterState::check: [st, res]
WriterCheck(w) ==
    LET w1 == IF w.offset >= w.end THEN [w EXCEPT !.state = "Done"] ELSE w
    IN IF w1.state = "Init" THEN [st |-> [w1 EXCEPT !.state = "Proc"], res |-> Ok(0)]
       ELSE IF w1.state = "Proc"
       THEN [st |-> [w1 EXCEPT !.offset = w1.offset + SIZE], res |-> Ok(0)]
       ELSE [st |-> w1, res |-> Err(TooManyData)]

\* write that puts the state back when the entry does not encode
WriterWrite_Restores(w, buffer, partition) ==
    LET c == WriterCheck(w) IN
    IF ~c.res.ok THEN [st |-> c.st, buffer |-> buffer, res |-> c.res]
    ELSE LET t == EntryToBytes(partition, buffer) IN
         IF ~t.res.ok THEN [st |-> w, buffer |-> t.data, res |-> t.res]
         ELSE [st |-> IF c.st.write_md5 /\ ~c.st.md5.ok
                      THEN [c.st EXCEPT !.md5 = Err(Md5Consume(c.st.md5.err, t.data))]
                      ELSE c.st,
               buffer |-> t.data, res |-> Ok(0)]

\* PartitionWriterState::write(&mut self, buffer, partition): [st, buffer, res]
WriterWrite(w, buffer, partition) ==
    LET c == WriterCheck(w) IN
    IF ~c.res.ok THEN [st |-> c.st, buffer |-> buffer, res |-> c.res]
    ELSE LET t == EntryToBytes(partition, buffer) IN
         IF ~t.res.ok THEN [st |-> c.st, buffer |-> t.data, res |-> t.res]
         ELSE [st |-> IF c.st.write_md5 /\ ~c.st.md5.ok
                      THEN [c.st EXCEPT !.md5 = Err(Md5Consume(c.st.md5.err, t.data))]
                      ELSE c.st,
               buffer |-> t.data, res |-> Ok(0)]

\* write_md5 that emits the checksum record whether or not tracking is enabled
WriterWriteMd5_AlwaysWrites(w, buffer) ==
    LET c == WriterCheck(w) IN
    IF ~c.res.ok THEN [st |-> c.st, buffer |-> buffer, res |-> c.res]
    ELSE LET w1 == [c.st EXCEPT !.state = "Done"] IN
         IF ~w1.md5.ok THEN
             LET md5 == Md5Compute(w1.md5.err)
                 t == Md5ToBytes(md5, buffer)
             IN [st |-> [w1 EXCEPT !.md5 = Ok(md5)], buffer |-> t.data, res |-> Ok(0)]
         ELSE [st |-> w1, buffer |-> buffer, res |-> Ok(0)]

\* PartitionWriterState::write_md5(&mut self, buffer): [st, buffer, res]
WriterWriteMd5(w, buffer) ==
    LET c == WriterCheck(w) IN
    IF ~c.res.ok THEN [st |-> c.st, buffer |-> buffer, res |-> c.res]
    ELSE LET w1 == [c.st EXCEPT !.state = "Done"] IN
         IF w1.write_md5 /\ ~w1.md5.ok THEN
             LET md5 == Md5Compute(w1.md5.err)
                 t == Md5ToBytes(md5, buffer)
             IN [st |-> [w1 EXCEPT !.md5 = Ok(md5)], buffer |-> t.data, res |-> Ok(0)]
         ELSE [st |-> w1, buffer |-> buffer, res |-> Ok(0)]

\* PartitionWriterState::finish
WriterFinish(w) == [w EXCEPT !.state = "Done"]

(***************************************************************************)
(* estor.rs (norfl.rs reads the same way)                                  *)
(***************************************************************************)
\* StorageOpError
PartitionError(e) == [op |-> "PartitionError", err |-> e]
StorageError(e) == [op |-> "StorageError", err |-> e]

\* a device: the records it holds from address base on, SIZE bytes each;
\* ReadStorage::read(offset, &mut buffer) fails past its last record
OutOfBounds == PErr("OutOfBounds")
StorageRead(dev, offset) ==
    LET k == (offset - dev.base) \div SIZE + 1
    IN IF offset >= dev.base /\ k <= Len(dev.slots) THEN Ok(dev.slots[k])
       ELSE Err(OutOfBounds)

\* Storage::write(offset, bytes) on a device of dev.capacity bytes, the
\* bytes given as len chunks of SIZE: the device's write log afterwards
StorageWrite(dev, offset, data, len) ==
    IF offset + SIZE * len <= dev.capacity
    THEN Ok(Append(dev.writes, [offset |-> offset, data |-> data]))
    ELSE Err(OutOfBounds)

\* write_nor_flash: const SECTOR_SIZE = PartitionTable::MAX_SIZE, in chunks
SECTOR_CHUNKS == MAX_SIZE \div SIZE

\* the byte count write_storage and write_nor_flash return
WrittenLen(st, table) == WriterOffset(st) - table.addr

\* PartitionTable::iter_storage: the iterator's reader state
iter_storage(table, calc_md5) == ReaderNew(table.addr, table.size, calc_md5)

\* PartitionStorageIter::next_partition: [st, res]
next_partition(dev, st) ==
    IF ReaderIsDone(st) THEN [st |-> st, res |-> Err(PartitionError(NotEnoughData))]
    ELSE LET b == StorageRead(dev, ReaderOffset(st)) IN
         IF ~b.ok THEN [st |-> st, res |-> Err(StorageError(b.err))]
         ELSE LET r == ReaderRead(st, b.val)
              IN [st |-> r.st,
                  res |-> IF r.res.ok THEN r.res ELSE Err(PartitionError(r.res.err))]

\* the addresses next_partition reads from storage: none once the state is
\* Done, else the record at the cursor
next_partition_reads(st) ==
    IF ReaderIsDone(st) THEN <<>> ELSE <<ReaderOffset(st)>>

\* next that hands every error on, NotEnoughData included
IterNext_Surfaces(dev, st) ==
    LET n == next_partition(dev, st)
    IN [st |-> n.st, item |-> Some(n.res)]

\* Iterator::next for PartitionStorageIter: [st, item], item an Option<Result>
IterNext(dev, st) ==
    LET n == next_partition(dev, st)
    IN [st |-> n.st,
        item |-> IF ~n.res.ok /\ n.res.err = PartitionError(NotEnoughData)
                 THEN None ELSE Some(n.res)]

\* the verification step taking a missing checksum for a matching one
ReadStorageVerify_Lenient(check_md5, st, result) ==
    IF check_md5 # None /\ CheckMd5(st) = Some(FALSE)
    THEN Err(PartitionError(InvalidMd5))
    ELSE Ok(result)

\* read_storage after the collect: the check of the checksum and the result
ReadStorageVerify(check_md5, st, result) ==
    IF check_md5 # None
       /\ ~(IF CheckMd5(st) # None THEN CheckMd5(st)[1] ELSE ~check_md5[1])
    THEN Err(PartitionError(InvalidMd5))
    ELSE Ok(result)

RECURSIVE CollectAll(_, _, _)
\* what collect does with the item n of the iterator: [st, res]
CollectItem(dev, n, result) ==
    IF n.item = None THEN [st |-> n.st, res |-> Ok(result)]
    ELSE IF n.item[1].ok THEN CollectAll(dev, n.st, Append(result, n.item[1].val))
    ELSE [st |-> n.st, res |-> Err(n.item[1].err)]

\* (&mut iter).collect::<Result<_, _>>(): [st, res], the items pulled until
\* the first None or the first error
CollectAll(dev, st, result) == CollectItem(dev, IterNext(dev, st), result)

\* read_storage once the collect has returned c
ReadCollected(check_md5, c) ==
    IF ~c.res.ok THEN c.res ELSE ReadStorageVerify(check_md5, c.st, c.res.val)

\* PartitionTable::read_storage (read_nor_flash is the same code)
read_storage(table, dev, check_md5) ==
    ReadCollected(check_md5, CollectAll(dev, iter_storage(table, check_md5 # None), <<>>))

(***************************************************************************)
(* Inputs                                                                  *)
(***************************************************************************)
MaxCalls == 4       \* calls made on one reader or writer
MaxEntries == 2     \* entry records at the head of a stored table

Builds == [heapless : BOOLEAN, usize_bytes : {4, 8}]

\* names as &str: "", "nvs", "factory", "a\0b", "e-acute" (2 bytes),
\* 16 bytes, 17 bytes
NameEmpty == <<>>
NameNvs == <<110, 118, 115>>
NameFactory == <<102, 97, 99, 116, 111, 114, 121>>
NameNul == <<97, 0, 98>>
NameAccent == <<195, 169>>
Name16 == Fill(97, 16)
Name17 == Fill(97, 17)
NameInputs == {NameEmpty, NameNvs, NameNul, NameAccent, Name16}

\* the names given to new and set_name: every length up to MaxNameGiven in
\* ASCII, two-byte characters up to and past 16 bytes, and NUL bytes inside
MaxNameGiven == 18
Repeat(s, n) == [i \in 1..(n * Len(s)) |-> s[((i - 1) % Len(s)) + 1]]
NamesGiven ==
    {Fill(97, k) : k \in 0..MaxNameGiven}
    \cup {NameNvs, NameFactory, NameAccent, NameNul, <<97, 0>>, <<0>>}
    \cup {Repeat(NameAccent, k) : k \in 7..9}
    \cup {Fill(97, 15) \o <<0>>, Fill(97, 16) \o <<0>>}

TypeInputs ==
    {App(Factory), App(Ota(0)), App(Ota(15)), App(Ota(16)), App(Test),
     Data("Nvs"), Data("LittleFS"), Any, User(64, 7), User(254, 255), User(63, 1)}

OffsetInputs == {0, 2048, 4096, 36864, 65536}

\* sizes: 0, 24 KiB, 2^32 - 1 and, where a usize has 64 bits, 2^32 and 2^32 + 5
SizeInputs ==
    {Usize(0), Usize(24576), U32LeAsUsize(Fill(255, 4))}
    \cup (IF build.usize_bytes = 8
          THEN {<<0, 0, 0, 0, 1, 0, 0, 0>>, <<5, 0, 0, 0, 1, 0, 0, 0>>}
          ELSE {})

\* u8, and the PartitionType values of the type conversions: every App and
\* Data subtype, Any, and User with every type byte
Byte == 0..255
TypeValues ==
    {App(Factory), App(Test), Any}
    \cup {App(Ota(n)) : n \in Byte}
    \cup {Data(c[1]) : c \in DataCodes}
    \cup {User(t, s) : t \in Byte, s \in {0, 7, 255}}

\* the buffers a caller hands in: zeroed, or erased flash
BufferInputs == {Fill(0, SIZE), Fill(255, SIZE)}

\* every entry PartitionEntry::new builds from the inputs
EntryInputs ==
    {EntryNew(t, o, s, n, e).val :
        t \in TypeInputs, o \in OffsetInputs, s \in SizeInputs, n \in NameInputs,
        e \in BOOLEAN}

\* entries for PartitionEntry::new: some encode, some (misaligned, Ota(16), User(63, _)) do not
E_nvs == EntryNew(Data("Nvs"), 36864, Usize(24576), NameNvs, FALSE).val
E_factory == EntryNew(App(Factory), 65536, Usize(1048576), NameFactory, FALSE).val
E_any == EntryNew(Any, 4096, Usize(4096), NameEmpty, TRUE).val
E_misaligned == EntryNew(Data("Nvs"), 2048, Usize(4096), NameNvs, FALSE).val
E_ota16 == EntryNew(App(Ota(16)), 65536, Usize(4096), NameNvs, FALSE).val
E_user63 == EntryNew(User(63, 1), 4096, Usize(4096), NameNvs, TRUE).val
WriterEntries == {E_nvs, E_factory, E_misaligned, E_ota16, E_user63}

Encoded(e) == EntryToBytes(e, Fill(0, SIZE)).data
Md5Record(digest) == Md5ToBytes(digest, Fill(0, SIZE)).data
Patch(data, i, b) == [data EXCEPT ![i] = b]

\* the records fed to a reader
R_nvs == Encoded(E_nvs)
R_factory == Encoded(E_factory)
R_any5 == Patch(Encoded(E_any), 4, 5)               \* type 0xff, subtype 5
R_flags == Patch(Encoded(E_nvs), 29, 3)             \* an unused flag bit set
R_type2 == Patch(R_nvs, 3, 2)                       \* type byte 0x02
R_subtype == Patch(R_nvs, 4, 9)                     \* Data subtype 0x09
R_utf8 == Patch(R_nvs, 13, 255)                     \* a name that is not UTF-8
R_md5zero == Md5Record(Fill(0, 16))
R_md5reserved == Patch(Md5Record(Fill(0, 16)), 5, 0)
R_erased == Fill(255, SIZE)
R_ffzero == <<255, 255>> \o Fill(0, SIZE - 2)
R_1234 == <<18, 52>> \o Fill(255, SIZE - 2)         \* 0x12 0x34
R_aa51 == Patch(R_nvs, 2, 81)                       \* 0xAA 0x51
R_ff00 == <<255, 0>> \o Fill(255, SIZE - 2)
R_zero == Fill(0, SIZE)

R_md5ones == Md5Record(Fill(17, 16))                \* a digest nothing hashes to
R_any0 == Encoded(E_any)                            \* type 0xff, subtype 0
R_offset1 == Patch(R_nvs, 5, 1)                     \* offset 0x9001
R_tail == Patch(R_nvs, 17, 120)                     \* "nvs", NUL, "x"

EntryRecords == {R_nvs, R_factory}
RecordInputs ==
    EntryRecords \cup
    {R_type2, R_utf8, R_md5zero, R_md5ones, R_md5reserved, R_erased, R_ffzero, R_1234,
     R_aa51, R_ff00}

\* the sequences of at most n elements of S
RECURSIVE SeqsUpTo(_, _)
SeqsUpTo(S, n) ==
    IF n = 0 THEN {<<>>}
    ELSE LET T == SeqsUpTo(S, n - 1) IN T \cup {Append(t, x) : t \in T, x \in S}

\* the bytes of a sequence of records, and the checksum record over them
RECURSIVE Flatten(_)
Flatten(records) ==
    IF records = <<>> THEN <<>> ELSE Head(records) \o Flatten(Tail(records))
ChecksumOf(records) == Md5Record(Md5Compute(Flatten(records)))

\* stored tables: entry records, then nothing, erased flash, a checksum
\* record (matching or not) or a record that is neither, then the rest of
\* the device
StoredTails(head) ==
    {<<>>, <<R_erased>>, <<ChecksumOf(head)>>, <<R_md5ones>>, <<R_md5reserved>>,
     <<R_1234>>, <<R_type2>>}
ImageInputs ==
    UNION {{head \o tail \o pad : tail \in StoredTails(head),
                                  pad \in {<<>>, <<R_erased>>}} :
           head \in SeqsUpTo(EntryRecords, MaxEntries)}
CheckMd5Inputs == {None, Some(FALSE), Some(TRUE)}

\* what an adapter is asked to write, and the devices it writes to: one
\* large enough for every table, one of 32 bytes
PartitionInputs == SeqsUpTo({E_nvs, E_factory, E_misaligned}, MaxEntries)
CapacityInputs == {SIZE, DEFAULT_ADDR + 2 * MAX_SIZE}

\* digests, and checksum records with one reserved byte that is not 0xFF
DigestInputs ==
    {Fill(0, 16), Fill(255, 16), Fill(235, 16), [i \in 1..16 |-> 16 * i - 1],
     Md5Compute(Md5ContextNew), Md5Compute(R_nvs)}
ReservedPatched ==
    {Patch(Md5Record(d), i, v) :
        d \in DigestInputs, i \in 3..(2 + RESERVED_SIZE), v \in {0, 235, 254}}

RECURSIVE ReaderAfter(_, _)
\* a reader over a whole table region that has read j entries
ReaderAfter(j, calc_md5) ==
    IF j = 0 THEN ReaderNew(DEFAULT_ADDR, MAX_SIZE, calc_md5)
    ELSE ReaderRead(ReaderAfter(j - 1, calc_md5), R_nvs).st

\* source tables of a copy: records with an entry magic, then a checksum
\* record (matching or not), erased flash, or nothing
CopyRecords == {R_factory, R_any0, R_any5, R_flags, R_offset1, R_tail, R_utf8}
SourceTails(head) ==
    {<<>>, <<R_erased>>, <<ChecksumOf(head)>>, <<ChecksumOf(head), R_erased>>,
     <<R_md5ones>>}
SourceInputs ==
    UNION {{head \o tail : tail \in SourceTails(head)} :
           head \in SeqsUpTo(CopyRecords, MaxEntries)}

\* table regions: base addresses and lengths (one not a multiple of 32)
AddrInputs == {0, DEFAULT_ADDR}
LengthInputs == {0, 32, 40, 96}

(***************************************************************************)
(* Idle values of the parts a specification does not use                   *)
(***************************************************************************)
NoCodec == [pc |-> "idle"]
NoReader == [active |-> FALSE]
NoWriter == [active |-> FALSE]
NoStor == [pc |-> "idle"]

(***************************************************************************)
(* SpecCodec: PartitionEntry::to_bytes and from_bytes on one entry         *)
(***************************************************************************)
InitCodec ==
    /\ build \in Builds
    /\ codec \in {[pc |-> "new", entry |-> e, before |-> b, data |-> b,
                   enc |-> Ok(0), dec |-> Ok(0), old |-> e, arg |-> e.offset] :
                     e \in EntryInputs, b \in BufferInputs}
    /\ reader = NoReader
    /\ writer = NoWriter
    /\ stor = NoStor

\* entry.to_bytes(&mut data)
CodecEncode ==
    /\ codec.pc = "new"
    /\ LET t == EntryToBytes(codec.entry, codec.data)
       IN codec' = [codec EXCEPT !.pc = "encoded", !.enc = t.res, !.data = t.data]
    /\ UNCHANGED <<build, reader, writer, stor>>

\* PartitionEntry::from_bytes(&data) of the buffer to_bytes filled
CodecDecode ==
    /\ codec.pc = "encoded"
    /\ codec.enc.ok
    /\ codec' = [codec EXCEPT !.pc = "decoded", !.dec = EntryFromBytes(codec.data)]
    /\ UNCHANGED <<build, reader, writer, stor>>

\* PartitionWriterState::new(0, MAX_SIZE, true).write(&mut data, entry)
CodecWrite ==
    /\ codec.pc = "new"
    /\ LET w == WriterWrite(WriterNew(0, MAX_SIZE, TRUE), codec.data, codec.entry)
       IN codec' = [codec EXCEPT !.pc = "written", !.enc = w.res, !.data = w.buffer]
    /\ UNCHANGED <<build, reader, writer, stor>>

\* entry.set_offset(offset); old is the entry before the call
CodecSetOffset ==
    /\ codec.pc = "new"
    /\ codec.before = Fill(0, SIZE)
    /\ \E offset \in OffsetInputs :
          LET t == EntrySetOffset(codec.entry, offset)
          IN codec' = [codec EXCEPT !.pc = "offset", !.entry = t.entry,
                                    !.enc = t.res, !.arg = offset]
    /\ UNCHANGED <<build, reader, writer, stor>>

NextCodec == CodecEncode \/ CodecDecode \/ CodecWrite \/ CodecSetOffset

SpecCodec == InitCodec /\ [][NextCodec]_vars

(***************************************************************************)
(* SpecName: a name given to PartitionEntry::new, or to set_name on an     *)
(* entry that already has one, then encoded and decoded again.             *)
(***************************************************************************)
InitName ==
    /\ build \in Builds
    /\ reader = NoReader
    /\ writer = NoWriter
    /\ stor = NoStor
    /\ codec \in {[pc |-> "start", name |-> n, via |-> "-", res |-> Ok(0),
                    old |-> EntryNew(Data("Nvs"), 36864, Usize(24576), p, FALSE).val,
                    entry |-> EntryNew(Data("Nvs"), 36864, Usize(24576), p, FALSE).val,
                    data |-> b, enc |-> Ok(0), dec |-> Ok(0)] :
                      n \in NamesGiven, p \in {NameEmpty, NameFactory, Name16},
                      b \in BufferInputs}

\* PartitionEntry::new(.., name, ..)
NameNew ==
    /\ codec.pc = "start"
    /\ LET r == EntryNew(Data("Nvs"), 36864, Usize(24576), codec.name, FALSE)
       IN codec' = [codec EXCEPT !.pc = "named", !.via = "new", !.res = r,
                                 !.entry = IF r.ok THEN r.val ELSE codec.entry]
    /\ UNCHANGED <<build, reader, writer, stor>>

\* entry.set_name(name) on the entry that holds the earlier name
NameSet ==
    /\ codec.pc = "start"
    /\ LET t == EntrySetName(codec.entry, codec.name)
       IN codec' = [codec EXCEPT !.pc = "named", !.via = "set_name", !.res = t.res,
                                 !.entry = t.entry]
    /\ UNCHANGED <<build, reader, writer, stor>>

\* entry.to_bytes(&mut data) once the name was accepted
NameEncode ==
    /\ codec.pc = "named"
    /\ codec.res.ok
    /\ LET t == EntryToBytes(codec.entry, codec.data)
       IN codec' = [codec EXCEPT !.pc = "encoded", !.enc = t.res, !.data = t.data]
    /\ UNCHANGED <<build, reader, writer, stor>>

\* PartitionEntry::from_bytes(&data)
NameDecode ==
    /\ codec.pc = "encoded"
    /\ codec.enc.ok
    /\ codec' = [codec EXCEPT !.pc = "decoded", !.dec = EntryFromBytes(codec.data)]
    /\ UNCHANGED <<build, reader, writer, stor>>

NextName == NameNew \/ NameSet \/ NameEncode \/ NameDecode

SpecName == InitName /\ [][NextName]_vars

(***************************************************************************)
(* SpecMd5: PartitionMd5::to_bytes and from_bytes, and a reader that       *)
(* meets a checksum record after some entries.                             *)
(***************************************************************************)
InitMd5 ==
    /\ build \in Builds
    /\ reader = NoReader
    /\ writer = NoWriter
    /\ stor = NoStor
    /\ \/ codec \in {[pc |-> "digest", digest |-> d, data |-> b, dec |-> Ok(d),
                       prior |-> ReaderAfter(0, FALSE),
                       rd |-> [st |-> ReaderAfter(0, FALSE), res |-> Ok(0)]] :
                         d \in DigestInputs, b \in BufferInputs}
       \/ codec \in {[pc |-> "record", digest |-> SubSeq(b, 17, 32), data |-> b,
                       dec |-> Ok(SubSeq(b, 17, 32)),
                       prior |-> ReaderAfter(0, FALSE),
                       rd |-> [st |-> ReaderAfter(0, FALSE), res |-> Ok(0)]] :
                         b \in ReservedPatched}

\* PartitionMd5 { data: digest }.to_bytes(&mut data)
Md5Encode ==
    /\ codec.pc = "digest"
    /\ codec' = [codec EXCEPT !.pc = "encoded",
                              !.data = Md5ToBytes(codec.digest, codec.data).data]
    /\ UNCHANGED <<build, reader, writer, stor>>

\* PartitionMd5::from_bytes(&data)
Md5Decode ==
    /\ codec.pc \in {"encoded", "record"}
    /\ codec' = [codec EXCEPT !.pc = IF codec.pc = "encoded" THEN "decoded" ELSE "rejected",
                              !.dec = Md5FromBytes(codec.data)]
    /\ UNCHANGED <<build, reader, writer, stor>>

\* reader.read(&data), the reader having read j entries
Md5Read ==
    /\ codec.pc \in {"encoded", "record"}
    /\ \E j \in 0..MaxEntries, calc_md5 \in BOOLEAN :
          codec' = [codec EXCEPT !.pc = "read", !.prior = ReaderAfter(j, calc_md5),
                                 !.rd = ReaderRead(ReaderAfter(j, calc_md5), codec.data)]
    /\ UNCHANGED <<build, reader, writer, stor>>

NextMd5 == Md5Encode \/ Md5Decode \/ Md5Read

SpecMd5 == InitMd5 /\ [][NextMd5]_vars

(***************************************************************************)
(* SpecTypes: the conversions between PartitionType and its (type,         *)
(* subtype) byte pair, from a pair and back, from a value and back.        *)
(***************************************************************************)
InitTypes ==
    /\ build \in Builds
    /\ reader = NoReader
    /\ writer = NoWriter
    /\ stor = NoStor
    /\ \/ codec \in {[pc |-> "pair", pair |-> <<t, s>>, ty |-> Any,
                       enc |-> Ok(<<t, s>>), dec |-> Ok(Any)] : t \in Byte, s \in Byte}
       \/ codec \in {[pc |-> "type", pair |-> <<0, 0>>, ty |-> v,
                       enc |-> Ok(<<0, 0>>), dec |-> Ok(v)] : v \in TypeValues}

\* PartitionType::try_from((raw_type, raw_subtype))
TypeDecode ==
    /\ codec.pc = "pair"
    /\ codec' = [codec EXCEPT !.pc = "decoded",
                              !.dec = TypeFromPair(codec.pair[1], codec.pair[2])]
    /\ UNCHANGED <<build, reader, writer, stor>>

\* <(u8, u8)>::try_from of the value just decoded
TypeEncodeBack ==
    /\ codec.pc = "decoded"
    /\ codec.dec.ok
    /\ codec' = [codec EXCEPT !.pc = "reencoded", !.enc = TypeToPair(codec.dec.val)]
    /\ UNCHANGED <<build, reader, writer, stor>>

\* <(u8, u8)>::try_from(ty)
TypeEncode ==
    /\ codec.pc = "type"
    /\ codec' = [codec EXCEPT !.pc = "encoded", !.enc = TypeToPair(codec.ty)]
    /\ UNCHANGED <<build, reader, writer, stor>>

\* PartitionType::try_from of the pair just encoded
TypeDecodeBack ==
    /\ codec.pc = "encoded"
    /\ codec.enc.ok
    /\ codec' = [codec EXCEPT !.pc = "redecoded",
                              !.dec = TypeFromPair(codec.enc.val[1], codec.enc.val[2])]
    /\ UNCHANGED <<build, reader, writer, stor>>

NextTypes == TypeDecode \/ TypeEncodeBack \/ TypeEncode \/ TypeDecodeBack

SpecTypes == InitTypes /\ [][NextTypes]_vars

(***************************************************************************)
(* Spec: one PartitionReaderState or one PartitionWriterState, driven by   *)
(* any sequence of calls.  The harness keeps, beside the machine (st),     *)
(* what its caller handed in and got back at the last call.                *)
(***************************************************************************)
\* table: the region the machine was built for; calls: calls made so far;
\* buf, res: the buffer and the result of the last read
\* got: the buffers of the calls that returned an entry, in order
ReaderHarness(table, calc_md5) ==
    [active |-> TRUE, table |-> table,
     st |-> ReaderNew(table.addr, table.size, calc_md5),
     calls |-> 0, buf |-> <<>>, res |-> Ok(0), got |-> <<>>]

\* op, before, buffer, res: the last call, the caller's buffer before and
\* after it, its result; out: the records of the calls that returned Ok,
\* each with the writer's offset() after the call, where the caller puts it;
\* gaps: the calls that failed in encoding, after the phase check
WriterHarness(table, write_md5) ==
    [active |-> TRUE, table |-> table,
     st |-> WriterNew(table.addr, table.size, write_md5),
     calls |-> 0, op |-> "new", before |-> <<>>,
     buffer |-> Fill(0, SIZE), res |-> Ok(0), out |-> <<>>, gaps |-> 0]

TableInputs == {PartitionTable(a, n) : a \in AddrInputs, n \in LengthInputs}

Init ==
    /\ build \in Builds
    /\ codec = NoCodec
    /\ stor = NoStor
    /\ \/ /\ reader \in {ReaderHarness(t, c) : t \in TableInputs, c \in BOOLEAN}
          /\ writer = NoWriter
       \/ /\ writer \in {WriterHarness(t, c) : t \in TableInputs, c \in BOOLEAN}
          /\ reader = NoReader

\* the checksum record that matches what the reader has consumed so far
MatchingMd5(st) ==
    IF st.calc_md5 /\ ~st.md5.ok THEN {Md5Record(Md5Compute(st.md5.err))} ELSE {}

\* reader.read(&buffer)
Read(buffer) ==
    /\ reader.active
    /\ reader.calls < MaxCalls
    /\ LET r == ReaderRead(reader.st, buffer)
       IN reader' = [reader EXCEPT !.st = r.st, !.res = r.res, !.buf = buffer,
                                   !.calls = reader.calls + 1,
                                   !.got = IF r.res.ok THEN Append(@, buffer) ELSE @]
    /\ UNCHANGED <<build, codec, writer, stor>>

\* the caller's buffer before a writer call: a zeroed slot, or the one used before
CallerBuffers == {Fill(0, SIZE), writer.buffer}

\* writer.write(&mut buffer, partition)
Write(buffer, partition) ==
    /\ writer.active
    /\ writer.calls < MaxCalls
    /\ LET w == WriterWrite(writer.st, buffer, partition)
       IN writer' = [writer EXCEPT
                        !.st = w.st, !.res = w.res, !.op = "write",
                        !.before = buffer, !.buffer = w.buffer,
                        !.calls = writer.calls + 1,
                        !.gaps = IF w.res.ok \/ w.res.err = TooManyData
                                 THEN writer.gaps ELSE writer.gaps + 1,
                        !.out = IF w.res.ok
                                THEN Append(writer.out, [offset |-> WriterOffset(w.st),
                                                         data |-> w.buffer])
                                ELSE writer.out]
    /\ UNCHANGED <<build, codec, reader, stor>>

\* writer.write_md5(&mut buffer)
WriteMd5(buffer) ==
    /\ writer.active
    /\ writer.calls < MaxCalls
    /\ LET w == WriterWriteMd5(writer.st, buffer)
       IN writer' = [writer EXCEPT
                        !.st = w.st, !.res = w.res, !.op = "write_md5",
                        !.before = buffer, !.buffer = w.buffer,
                        !.calls = writer.calls + 1,
                        !.out = IF w.res.ok
                                THEN Append(writer.out, [offset |-> WriterOffset(w.st),
                                                         data |-> w.buffer])
                                ELSE writer.out]
    /\ UNCHANGED <<build, codec, reader, stor>>

\* writer.finish()
Finish ==
    /\ writer.active
    /\ writer.calls < MaxCalls
    /\ writer' = [writer EXCEPT !.st = WriterFinish(writer.st), !.op = "finish",
                                !.res = Ok(0), !.calls = writer.calls + 1]
    /\ UNCHANGED <<build, codec, reader, stor>>

ReadAny ==
    /\ reader.active
    /\ \E buffer \in RecordInputs \cup MatchingMd5(reader.st) : Read(buffer)
WriteAny ==
    /\ writer.active
    /\ \E buffer \in CallerBuffers, partition \in WriterEntries : Write(buffer, partition)
WriteMd5Any ==
    /\ writer.active
    /\ \E buffer \in CallerBuffers : WriteMd5(buffer)

Next == ReadAny \/ WriteAny \/ WriteMd5Any \/ Finish

Spec == Init /\ [][Next]_vars

(***************************************************************************)
(* SpecLaw: a fresh writer with tracking enabled takes N entries and then  *)
(* write_md5, each into a zeroed slot; once it has accepted them all, a    *)
(* fresh reader over the same region (tracking enabled) is fed the N + 1   *)
(* records in order until it returns NotEnoughData.                        *)
(***************************************************************************)
InitLaw ==
    /\ build \in Builds
    /\ codec = NoCodec
    /\ stor = NoStor
    /\ reader = NoReader
    /\ writer \in {WriterHarness(t, TRUE) : t \in TableInputs}

\* the writer has accepted every call so far and is not finalized
LawWriting == ~reader.active /\ writer.res.ok /\ writer.op # "write_md5"

LawWrite ==
    /\ LawWriting
    /\ \E partition \in WriterEntries : Write(Fill(0, SIZE), partition)

LawWriteMd5 ==
    /\ LawWriting
    /\ WriteMd5(Fill(0, SIZE))

\* PartitionReaderState::new(addr, size, true) once write_md5 returned Ok
LawOpenReader ==
    /\ ~reader.active
    /\ writer.op = "write_md5"
    /\ writer.res.ok
    /\ reader' = ReaderHarness(writer.table, TRUE)
    /\ UNCHANGED <<build, codec, writer, stor>>

\* the next record the writer produced, unless the reader has ended the scan
LawReadBack ==
    /\ reader.active
    /\ reader.res.ok
    /\ reader.calls < Len(writer.out)
    /\ Read(writer.out[reader.calls + 1].data)

NextLaw == LawWrite \/ LawWriteMd5 \/ LawOpenReader \/ LawReadBack

SpecLaw == InitLaw /\ [][NextLaw]_vars

(***************************************************************************)
(* SpecStorage: PartitionTable::read_storage over a device.  The collect   *)
(* pulls the iterator until it ends or yields an error, which is returned; *)
(* then the checksum is verified.                                          *)
(***************************************************************************)
\* dev: the device; iter: the iterator's reader state; result: the entries
\* collected; out: what read_storage returned, by: the step that returned it
StorageHarness(table, image, check_md5) ==
    [pc |-> "collect", table |-> table,
     dev |-> [base |-> table.addr, slots |-> image],
     check_md5 |-> check_md5, iter |-> iter_storage(table, check_md5 # None),
     result |-> <<>>, out |-> Ok(<<>>), by |-> "none"]

InitStorage ==
    /\ build \in Builds
    /\ codec = NoCodec
    /\ reader = NoReader
    /\ writer = NoWriter
    /\ stor \in {StorageHarness(t, i, c) :
                    t \in TableInputs, i \in ImageInputs, c \in CheckMd5Inputs}

\* one item pulled by collect::<Result<_, _>>()
StorageCollect ==
    /\ stor.pc = "collect"
    /\ LET n == IterNext(stor.dev, stor.iter) IN
       stor' = IF n.item = None
               THEN [stor EXCEPT !.iter = n.st, !.pc = "verify"]
               ELSE IF n.item[1].ok
               THEN [stor EXCEPT !.iter = n.st,
                                 !.result = Append(stor.result, n.item[1].val)]
               ELSE [stor EXCEPT !.iter = n.st, !.pc = "done",
                                 !.out = Err(n.item[1].err), !.by = "collect"]
    /\ UNCHANGED <<build, codec, reader, writer>>

\* the rest of read_storage
StorageVerify ==
    /\ stor.pc = "verify"
    /\ stor' = [stor EXCEPT
                   !.pc = "done", !.by = "verify",
                   !.out = ReadStorageVerify(stor.check_md5, stor.iter, stor.result)]
    /\ UNCHANGED <<build, codec, reader, writer>>

NextStorage == StorageCollect \/ StorageVerify

SpecStorage == InitStorage /\ [][NextStorage]_vars

(***************************************************************************)
(* SpecIter: the iterator of iter_storage (iter_nor_flash is the same code *)
(* over ReadNorFlash), pulled with next() by its caller, who may go on     *)
(* after an error or after None.                                           *)
(***************************************************************************)
\* items: what the calls of next() returned; reads: the addresses read from
\* the device
IterHarness(table, image, calc_md5) ==
    [pc |-> "iter", table |-> table,
     dev |-> [base |-> table.addr, slots |-> image],
     iter |-> iter_storage(table, calc_md5), items |-> <<>>, reads |-> <<>>]

InitIter ==
    /\ build \in Builds
    /\ codec = NoCodec
    /\ reader = NoReader
    /\ writer = NoWriter
    /\ stor \in {IterHarness(t, i, c) :
                    t \in TableInputs, i \in ImageInputs, c \in BOOLEAN}

\* iter.next()
IterStep ==
    /\ stor.pc = "iter"
    /\ Len(stor.items) < MaxCalls
    /\ LET n == IterNext(stor.dev, stor.iter) IN
       stor' = [stor EXCEPT !.iter = n.st, !.items = Append(@, n.item),
                            !.reads = @ \o next_partition_reads(stor.iter)]
    /\ UNCHANGED <<build, codec, reader, writer>>

NextIter == IterStep

SpecIter == InitIter /\ [][NextIter]_vars

(***************************************************************************)
(* SpecWrite: PartitionTable::write_storage and write_nor_flash, one turn  *)
(* of the loop over the partitions at a time, then the rest of the call.   *)
(***************************************************************************)
\* fn: the adapter; partitions, write_md5: its arguments; k: partitions
\* taken so far; st: the writer state; data: the record buffer of
\* write_storage; sector: the sector of write_nor_flash, as the chunks
\* handed to the writer so far (head) and the byte every later chunk holds
\* (rest); dev: the device, with the number of calls of its write and the
\* log of the writes it accepted;
\* out: what the call returned; check_md5, back: the argument and the
\* result of the read of the same table from the same device afterwards
WriteHarness(fn, table, partitions, write_md5, junk, capacity) ==
    [pc |-> "loop", fn |-> fn, table |-> table, partitions |-> partitions,
     write_md5 |-> write_md5, k |-> 0,
     st |-> WriterNew(table.addr, table.size, write_md5),
     data |-> Fill(junk, SIZE), sector |-> [head |-> <<>>, rest |-> junk],
     dev |-> [capacity |-> capacity, calls |-> 0, writes |-> <<>>], out |-> Ok(0),
     check_md5 |-> None, back |-> Ok(<<>>)]

InitWrite ==
    /\ build \in Builds
    /\ codec = NoCodec
    /\ reader = NoReader
    /\ writer = NoWriter
    /\ stor \in {WriteHarness(f, t, p, m, j, c) :
                    f \in {"write_storage", "write_nor_flash"}, t \in TableInputs,
                    p \in PartitionInputs, m \in BOOLEAN, j \in {0, 255},
                    c \in CapacityInputs}

\* the call returns
Return(res) == stor' = [stor EXCEPT !.pc = "done", !.out = res]

\* a turn of the loop that takes back the records already written when the
\* entry fails
WriteStorageEntry_RollsBack ==
    /\ stor.pc = "loop" /\ stor.fn = "write_storage"
    /\ stor.k < Len(stor.partitions)
    /\ UNCHANGED <<build, codec, reader, writer>>
    /\ IF WriterIsDone(stor.st) THEN Return(Err(PartitionError(TooManyData)))
       ELSE \E w \in {WriterWrite(stor.st, stor.data, stor.partitions[stor.k + 1])} :
            \E d \in {StorageWrite(stor.dev, WriterOffset(w.st), w.buffer, 1)} :
               stor' = IF ~w.res.ok
                       THEN [stor EXCEPT !.pc = "done", !.st = w.st, !.data = w.buffer,
                                         !.dev.writes = <<>>,
                                         !.out = Err(PartitionError(w.res.err))]
                       ELSE IF ~d.ok
                       THEN [stor EXCEPT !.pc = "done", !.st = w.st, !.data = w.buffer,
                                         !.dev.calls = @ + 1, !.dev.writes = <<>>,
                                         !.out = Err(StorageError(d.err))]
                       ELSE [stor EXCEPT !.st = w.st, !.data = w.buffer,
                                         !.dev.calls = @ + 1, !.dev.writes = d.val,
                                         !.k = stor.k + 1]

\* write_storage: one turn of `for partition in partitions`
WriteStorageEntry ==
    /\ stor.pc = "loop" /\ stor.fn = "write_storage"
    /\ stor.k < Len(stor.partitions)
    /\ UNCHANGED <<build, codec, reader, writer>>
    /\ IF WriterIsDone(stor.st) THEN Return(Err(PartitionError(TooManyData)))
       ELSE \E w \in {WriterWrite(stor.st, stor.data, stor.partitions[stor.k + 1])} :
            \E d \in {StorageWrite(stor.dev, WriterOffset(w.st), w.buffer, 1)} :
               stor' = IF ~w.res.ok
                       THEN [stor EXCEPT !.pc = "done", !.st = w.st, !.data = w.buffer,
                                         !.out = Err(PartitionError(w.res.err))]
                       ELSE IF ~d.ok
                       THEN [stor EXCEPT !.pc = "done", !.st = w.st, !.data = w.buffer,
                                         !.dev.calls = @ + 1,
                                         !.out = Err(StorageError(d.err))]
                       ELSE [stor EXCEPT !.st = w.st, !.data = w.buffer,
                                         !.dev.calls = @ + 1, !.dev.writes = d.val,
                                         !.k = stor.k + 1]

\* write_storage after the loop: the checksum record, the byte count
WriteStorageEnd ==
    /\ stor.pc = "loop" /\ stor.fn = "write_storage"
    /\ stor.k = Len(stor.partitions)
    /\ UNCHANGED <<build, codec, reader, writer>>
    /\ IF ~stor.write_md5 THEN Return(Ok(WrittenLen(stor.st, stor.table)))
       ELSE IF WriterIsDone(stor.st) THEN Return(Err(PartitionError(TooManyData)))
       ELSE \E w \in {WriterWriteMd5(stor.st, stor.data)} :
            \E d \in {StorageWrite(stor.dev, WriterOffset(w.st), w.buffer, 1)} :
               stor' = IF ~w.res.ok
                       THEN [stor EXCEPT !.pc = "done", !.st = w.st, !.data = w.buffer,
                                         !.out = Err(PartitionError(w.res.err))]
                       ELSE IF ~d.ok
                       THEN [stor EXCEPT !.pc = "done", !.st = w.st, !.data = w.buffer,
                                         !.dev.calls = @ + 1,
                                         !.out = Err(StorageError(d.err))]
                       ELSE [stor EXCEPT !.pc = "done", !.st = w.st, !.data = w.buffer,
                                         !.dev.calls = @ + 1, !.dev.writes = d.val,
                                         !.out = Ok(WrittenLen(w.st, stor.table))]

\* a turn of the loop that writes the sector as far as it got when the
\* entry fails
WriteNorFlashEntry_WritesPartial ==
    /\ stor.pc = "loop" /\ stor.fn = "write_nor_flash"
    /\ stor.k < Len(stor.partitions)
    /\ UNCHANGED <<build, codec, reader, writer>>
    /\ IF WriterIsDone(stor.st) THEN Return(Err(PartitionError(TooManyData)))
       ELSE IF Len(stor.sector.head) >= SECTOR_CHUNKS
       THEN Return(Err(PartitionError(NotEnoughData)))
       ELSE \E w \in {WriterWrite(stor.st, Fill(stor.sector.rest, SIZE),
                                  stor.partitions[stor.k + 1])} :
               stor' = IF ~w.res.ok
                       THEN [stor EXCEPT !.pc = "done", !.st = w.st,
                                         !.sector.head = Append(@, w.buffer),
                                         !.dev.calls = @ + 1,
                                         !.dev.writes =
                                             Append(@, [offset |-> 0, data |-> stor.sector]),
                                         !.out = Err(PartitionError(w.res.err))]
                       ELSE [stor EXCEPT !.st = w.st, !.k = stor.k + 1,
                                         !.sector.head = Append(@, w.buffer)]

\* write_nor_flash: one turn of `for partition in partitions`
WriteNorFlashEntry ==
    /\ stor.pc = "loop" /\ stor.fn = "write_nor_flash"
    /\ stor.k < Len(stor.partitions)
    /\ UNCHANGED <<build, codec, reader, writer>>
    /\ IF WriterIsDone(stor.st) THEN Return(Err(PartitionError(TooManyData)))
       ELSE IF Len(stor.sector.head) >= SECTOR_CHUNKS
       THEN Return(Err(PartitionError(NotEnoughData)))
       ELSE \E w \in {WriterWrite(stor.st, Fill(stor.sector.rest, SIZE),
                                  stor.partitions[stor.k + 1])} :
               stor' = IF ~w.res.ok
                       THEN [stor EXCEPT !.pc = "done", !.st = w.st,
                                         !.sector.head = Append(@, w.buffer),
                                         !.out = Err(PartitionError(w.res.err))]
                       ELSE [stor EXCEPT !.st = w.st, !.k = stor.k + 1,
                                         !.sector.head = Append(@, w.buffer)]

\* write_nor_flash after the loop: the checksum record, the fill of the
\* rest of the sector, the one storage write, the byte count
WriteNorFlashEnd ==
    /\ stor.pc = "loop" /\ stor.fn = "write_nor_flash"
    /\ stor.k = Len(stor.partitions)
    /\ UNCHANGED <<build, codec, reader, writer>>
    /\ IF stor.write_md5 /\ WriterIsDone(stor.st)
       THEN Return(Err(PartitionError(TooManyData)))
       ELSE IF stor.write_md5 /\ Len(stor.sector.head) >= SECTOR_CHUNKS
       THEN Return(Err(PartitionError(NotEnoughData)))
       ELSE \E w \in {IF stor.write_md5
                      THEN WriterWriteMd5(stor.st, Fill(stor.sector.rest, SIZE))
                      ELSE [st |-> stor.st, buffer |-> <<>>, res |-> Ok(0)]} :
            \E sector \in {[head |-> IF stor.write_md5
                                     THEN Append(stor.sector.head, w.buffer)
                                     ELSE stor.sector.head,
                             rest |-> IF w.res.ok THEN 0 ELSE stor.sector.rest]} :
            \E d \in {StorageWrite(stor.dev, 0, sector, SECTOR_CHUNKS)} :
               stor' = IF ~w.res.ok
                       THEN [stor EXCEPT !.pc = "done", !.st = w.st, !.sector = sector,
                                         !.out = Err(PartitionError(w.res.err))]
                       ELSE IF ~d.ok
                       THEN [stor EXCEPT !.pc = "done", !.st = w.st, !.sector = sector,
                                         !.dev.calls = @ + 1,
                                         !.out = Err(StorageError(d.err))]
                       ELSE [stor EXCEPT !.pc = "done", !.st = w.st, !.sector = sector,
                                         !.dev.calls = @ + 1, !.dev.writes = d.val,
                                         !.out = Ok(WrittenLen(w.st, stor.table))]

\* the record at address a of the device, erased flash before the call:
\* what the last write that covers a put there
RecordOnDevice(a) ==
    IF stor.fn = "write_storage" THEN
        LET hits == {i \in 1..Len(stor.dev.writes) : stor.dev.writes[i].offset = a}
        IN IF hits = {} THEN Fill(255, SIZE)
           ELSE stor.dev.writes[CHOOSE i \in hits : \A j \in hits : j <= i].data
    ELSE IF stor.dev.writes = <<>> \/ a < stor.dev.writes[1].offset
            \/ a >= stor.dev.writes[1].offset + MAX_SIZE
    THEN Fill(255, SIZE)
    ELSE LET k == (a - stor.dev.writes[1].offset) \div SIZE + 1
             sector == stor.dev.writes[1].data
         IN IF k <= Len(sector.head) THEN sector.head[k] ELSE Fill(sector.rest, SIZE)

\* the device as a reader of the table sees it: the records from the table
\* base to two records past the region, or to the end of the device
DeviceAfter ==
    LET room == IF stor.dev.capacity > stor.table.addr
                THEN (stor.dev.capacity - stor.table.addr) \div SIZE ELSE 0
        n == IF room < max_entries(stor.table) + 2 THEN room
             ELSE max_entries(stor.table) + 2
    IN [base |-> stor.table.addr,
        slots |-> [k \in 1..n |-> RecordOnDevice(stor.table.addr + SIZE * (k - 1))]]

\* read_storage / read_nor_flash with the same table on the same device,
\* once the write returned Ok
ReadBack ==
    /\ stor.pc = "done"
    /\ stor.out.ok
    /\ \E check_md5 \in CheckMd5Inputs :
          stor' = [stor EXCEPT !.pc = "read", !.check_md5 = check_md5,
                               !.back = read_storage(stor.table, DeviceAfter, check_md5)]
    /\ UNCHANGED <<build, codec, reader, writer>>

NextWrite ==
    \/ WriteStorageEntry \/ WriteStorageEnd \/ WriteNorFlashEntry \/ WriteNorFlashEnd
    \/ ReadBack

SpecWrite == InitWrite /\ [][NextWrite]_vars

(***************************************************************************)
(* SpecCopy: the loop of test::write_partitions.  A reader over the source *)
(* table and a writer with the same base, both tracking the checksum, run  *)
(* in lockstep: each entry read is written, write_md5 is called when the   *)
(* reader returns NotEnoughData; any unwrap that fails is a panic.         *)
(***************************************************************************)
CopyHarness(src) == [pc |-> "copy", src |-> src]

InitCopy ==
    /\ build \in Builds
    /\ codec = NoCodec
    /\ \E src \in SourceInputs, addr \in AddrInputs :
          /\ stor = CopyHarness(src)
          /\ reader = ReaderHarness(PartitionTable(addr, SIZE * Len(src)), TRUE)
          /\ writer \in {WriterHarness(PartitionTable(addr, n), TRUE) :
                            n \in {SIZE * Len(src), MAX_SIZE}}

\* one turn of the loop
CopyStep ==
    /\ stor.pc = "copy"
    /\ UNCHANGED <<build, codec>>
    /\ IF reader.calls >= Len(stor.src) \/ writer.calls >= max_entries(writer.table)
       THEN \* split_first_chunk().unwrap() on an exhausted table
            /\ stor' = [stor EXCEPT !.pc = "panic"]
            /\ UNCHANGED <<reader, writer>>
       ELSE \E src_part \in {stor.src[reader.calls + 1]} :
            \E r \in {ReaderRead(reader.st, src_part)} :
            \E w \in {IF r.res.ok
                      THEN WriterWrite(writer.st, Fill(0, SIZE), r.res.val)
                      ELSE WriterWriteMd5(writer.st, Fill(0, SIZE))} :
               /\ reader' = [reader EXCEPT !.st = r.st, !.res = r.res,
                                           !.buf = src_part,
                                           !.calls = reader.calls + 1,
                                           !.got = IF r.res.ok THEN Append(@, src_part)
                                                   ELSE @]
               /\ IF ~r.res.ok /\ r.res.err # NotEnoughData
                  THEN /\ stor' = [stor EXCEPT !.pc = "panic"]
                       /\ UNCHANGED writer
                  ELSE /\ writer' =
                            [writer EXCEPT
                               !.st = w.st, !.res = w.res,
                               !.op = IF r.res.ok THEN "write" ELSE "write_md5",
                               !.before = Fill(0, SIZE), !.buffer = w.buffer,
                               !.calls = writer.calls + 1,
                               !.gaps = IF w.res.ok \/ w.res.err = TooManyData
                                        THEN writer.gaps ELSE writer.gaps + 1,
                               !.out = IF w.res.ok
                                       THEN Append(writer.out,
                                                   [offset |-> WriterOffset(w.st),
                                                    data |-> w.buffer])
                                       ELSE writer.out]
                       /\ stor' = [stor EXCEPT
                                     !.pc = IF ~w.res.ok THEN "panic"
                                            ELSE IF r.res.ok THEN "copy"
                                            ELSE "done"]

NextCopy == CopyStep

SpecCopy == InitCopy /\ [][NextCopy]_vars

(***************************************************************************)
(* Claims on the record codec (SpecCodec)                                  *)
(***************************************************************************)
\* the alignment a type requires, as the data model states it
RequiredAlign(e) == IF e.type_.tag = "App" THEN 65536 ELSE 4096
Aligned(e) == e.offset % RequiredAlign(e) = 0
\* a type that encodes: Ota(n) with n <= 15, User(t, _) with t in 0x40..=0xfe
TypeEncodes(e) ==
    /\ e.type_.tag = "App" /\ e.type_.sub.tag = "Ota" => e.type_.sub.n <= 15
    /\ e.type_.tag = "User" => e.type_.raw \in 64..254
ValidEntry(e) == TypeEncodes(e) /\ Aligned(e)
\* the size is below 2^32
SizeFitsU32(e) == \A i \in 5..Len(e.size) : e.size[i] = 0
HasNul(name) == \E i \in 1..Len(name) : name[i] = 0

\* C9 as stated: every valid entry encodes, and decoding the 32 bytes
\* gives back an entry equal to it.
C9_RoundTripAnyEntry ==
    /\ codec.pc = "encoded" /\ ValidEntry(codec.entry) => codec.enc.ok
    /\ codec.pc = "decoded" => codec.dec.ok /\ codec.dec.val = codec.entry

\* C9 amended: every valid entry encodes; decoding the 32 bytes gives back
\* an entry equal to it when its size is below 2^32 and, in the heapless
\* build, its name holds no NUL byte.
C9_RoundTrip ==
    /\ codec.pc = "encoded" /\ ValidEntry(codec.entry) => codec.enc.ok
    /\ codec.pc = "decoded" /\ SizeFitsU32(codec.entry)
         /\ (build.heapless => ~HasNul(codec.entry.name))
       => codec.dec.ok /\ codec.dec.val = codec.entry

\* a valid entry with a 16-byte name, an App type and a large size came back
C9_Witness ==
    /\ codec.pc = "decoded"
    /\ codec.entry.type_ = App(Ota(15))
    /\ codec.entry.offset = 65536
    /\ codec.entry.size = U32LeAsUsize(Fill(255, 4))
    /\ EntryName(codec.entry) = Name16
    /\ codec.entry.encrypted
    /\ codec.dec.ok
    /\ codec.dec.val = codec.entry

\* the size field of a record: bytes 8..12 of the 32
SizeField(data) == SubSeq(data, 9, 12)

\* C32: to_bytes writes the size as the four little-endian bytes of
\* size mod 2^32 and reports no error for a size of 2^32 or more; the size
\* from_bytes returns is those four bytes zero-extended, so it equals the
\* size of the entry exactly when that size is below 2^32.
C32_SizeWraps ==
    /\ codec.pc = "encoded" /\ ValidEntry(codec.entry) => codec.enc.ok
    /\ codec.pc \in {"encoded", "decoded"} /\ codec.enc.ok =>
          SizeField(codec.data) = Take(codec.entry.size, 4)
    /\ codec.pc = "decoded" /\ codec.dec.ok =>
          /\ codec.dec.val.size = Take(codec.entry.size, 4) \o Fill(0, build.usize_bytes - 4)
          /\ codec.dec.val.size = codec.entry.size <=> SizeFitsU32(codec.entry)

\* a size of 2^32 + 5 was encoded without an error and came back as 5
C32_Witness ==
    /\ codec.pc = "decoded"
    /\ build.usize_bytes = 8
    /\ codec.entry.size = <<5, 0, 0, 0, 1, 0, 0, 0>>
    /\ codec.enc.ok
    /\ SizeField(codec.data) = <<5, 0, 0, 0>>
    /\ codec.dec.ok
    /\ codec.dec.val.size = <<5, 0, 0, 0, 0, 0, 0, 0>>

\* C10: to_bytes, and write_entry through it, fails with InvalidAlignment
\* whenever the offset is not a multiple of the type's alignment, and then
\* the output buffer is byte for byte what it was.
C10_AlignmentFirst ==
    codec.pc \in {"encoded", "written"} /\ ~Aligned(codec.entry)
    => IsErr(codec.enc, InvalidAlignment) /\ codec.data = codec.before

\* a misaligned entry whose type does not encode either, on erased flash
C10_Witness ==
    /\ codec.pc = "written"
    /\ codec.entry.type_ = App(Ota(16))
    /\ codec.entry.offset = 4096
    /\ codec.before = Fill(255, SIZE)
    /\ IsErr(codec.enc, InvalidAlignment)

\* C11 as stated: every entry from new, from a successful from_bytes or
\* after a successful set_offset has offset % type_.align() = 0, and a
\* set_offset that fails leaves the offset unchanged.
C11_EntriesAligned ==
    /\ codec.pc = "new" => Aligned(codec.entry)
    /\ codec.pc = "decoded" /\ codec.dec.ok => Aligned(codec.dec.val)
    /\ codec.pc = "offset" /\ codec.enc.ok =>
          Aligned(codec.entry) /\ codec.entry.offset = codec.arg
    /\ codec.pc = "offset" /\ ~codec.enc.ok => codec.entry = codec.old

\* what holds of the code: set_offset keeps the alignment, new does not check
C11_SetOffsetAligned ==
    /\ codec.pc = "offset" /\ codec.enc.ok =>
          Aligned(codec.entry) /\ codec.entry.offset = codec.arg
    /\ codec.pc = "offset" /\ ~codec.enc.ok =>
          codec.entry = codec.old /\ IsErr(codec.enc, InvalidAlignment)

(***************************************************************************)
(* Claims on the checksum record (SpecMd5)                                 *)
(***************************************************************************)
\* the record starts with 0xEB 0xEB and a reserved byte is not 0xFF
BadReserved(data) ==
    /\ Take(data, 2) = <<235, 235>>
    /\ \E i \in 3..16 : data[i] # 255

\* C24: a record with the checksum magic and a reserved byte that is not
\* 0xFF is rejected with InvalidMagic; a reader that meets it becomes Done
\* with stored_md5() still None and the cursor where it was; decoding the
\* record encoded from a digest returns the digest.
C24_ChecksumRecord ==
    /\ codec.pc = "rejected" /\ BadReserved(codec.data) =>
          codec.dec = Err(InvalidMagic)
    /\ codec.pc = "read" /\ BadReserved(codec.data) =>
          /\ codec.rd.res = Err(InvalidMagic)
          /\ ReaderIsDone(codec.rd.st)
          /\ StoredMd5(codec.rd.st) = None
          /\ ReaderOffset(codec.rd.st) = ReaderOffset(codec.prior)
    /\ codec.pc = "decoded" => codec.dec = Ok(codec.digest)

\* the last reserved byte is 0xFE, met by a tracking reader after two entries
C24_Witness ==
    /\ codec.pc = "read"
    /\ codec.data = Patch(Md5Record(Fill(0, 16)), 16, 254)
    /\ codec.prior.calc_md5
    /\ ~ReaderIsDone(codec.prior)
    /\ ReaderOffset(codec.prior) = DEFAULT_ADDR + 2 * SIZE
    /\ codec.rd.res = Err(InvalidMagic)
    /\ ReaderIsDone(codec.rd.st)

(***************************************************************************)
(* Claims on names (SpecName)                                              *)
(***************************************************************************)
\* new and set_name take a name of at most 16 bytes and reject a longer one
\* with InvalidString, set_name leaving the entry as it was
NameLengthChecked ==
    codec.pc = "named" =>
        IF Len(codec.name) <= MAX_NAME_LEN
        THEN codec.res.ok /\ (~HasNul(codec.name) => EntryName(codec.entry) = codec.name)
        ELSE /\ codec.res = Err(InvalidString)
             /\ codec.via = "set_name" =>
                   codec.entry = codec.old /\ EntryName(codec.entry) = EntryName(codec.old)

\* C22 as stated: every name of at most 16 bytes comes back from name()
\* after encoding and decoding; longer names are rejected with
\* InvalidString, a failing set_name leaving the stored name unchanged.
C22_NameRoundTripAll ==
    /\ NameLengthChecked
    /\ codec.pc = "encoded" => codec.enc.ok
    /\ codec.pc = "decoded" => codec.dec.ok /\ EntryName(codec.dec.val) = codec.name

\* C22, amended: every name of at most 16 bytes that holds no NUL byte
\* comes back from name() after encoding and decoding; longer names are
\* rejected with InvalidString, a failing set_name leaving the stored name
\* unchanged.
C22_NameRoundTrip ==
    /\ NameLengthChecked
    /\ codec.pc = "encoded" => codec.enc.ok
    /\ codec.pc = "decoded" /\ ~HasNul(codec.name) =>
          codec.dec.ok /\ EntryName(codec.dec.val) = codec.name

\* eight two-byte characters, set over a 16-byte name, came back
C22_Witness ==
    /\ codec.pc = "decoded"
    /\ codec.via = "set_name"
    /\ EntryName(codec.old) = Name16
    /\ codec.name = Repeat(NameAccent, 8)
    /\ codec.dec.ok
    /\ EntryName(codec.dec.val) = codec.name

(***************************************************************************)
(* Claims on the type conversions (SpecTypes)                              *)
(***************************************************************************)
IsOta(ty) == ty.tag = "App" /\ ty.sub.tag = "Ota"

\* C19: encoding App(Ota(n)) gives (0x00, 0x10 + n) when n <= 15, and
\* decoding that pair gives App(Ota(n)) back; when n >= 16 it fails with
\* InvalidOtaNumber(n); no pair decodes to Ota(n) with n > 15.
C19_OtaRoundTrip ==
    /\ codec.pc = "encoded" /\ IsOta(codec.ty) =>
          IF codec.ty.sub.n <= 15
          THEN codec.enc = Ok(<<0, 16 + codec.ty.sub.n>>)
          ELSE codec.enc = Err(InvalidOtaNumber(codec.ty.sub.n))
    /\ codec.pc = "redecoded" /\ IsOta(codec.ty) =>
          codec.ty.sub.n <= 15 /\ codec.dec = Ok(codec.ty)
    /\ codec.pc = "decoded" /\ codec.dec.ok /\ IsOta(codec.dec.val) =>
          /\ codec.dec.val.sub.n <= 15
          /\ codec.pair = <<0, 16 + codec.dec.val.sub.n>>

\* the last slot: Ota(15), through 0x1f and back
C19_Witness ==
    /\ codec.pc = "redecoded"
    /\ codec.ty = App(Ota(15))
    /\ codec.enc = Ok(<<0, 31>>)
    /\ codec.dec = Ok(App(Ota(15)))

\* C20: decoding a pair (b, s) fails with InvalidType(b) exactly when b is
\* in 0x02..=0x3f, whatever s; 0x00 goes by the App subtype (App, or
\* InvalidSubType(s) when s is no App subtype), 0x01 by the Data subtype
\* (Data, or InvalidSubType(s)), 0x40..=0xfe gives User(b, s) and 0xff Any.
C20_TypeDecodeTotal ==
    codec.pc = "decoded" =>
        LET b == codec.pair[1]
            s == codec.pair[2]
        IN /\ (b \in 2..63) <=> (~codec.dec.ok /\ codec.dec.err.kind = "InvalidType")
           /\ b \in 2..63 => codec.dec = Err(InvalidType(b))
           /\ b = 0 => IF s = 0 \/ s \in 16..31 \/ s = 32
                       THEN codec.dec.ok /\ codec.dec.val.tag = "App"
                       ELSE codec.dec = Err(InvalidSubType(s))
           /\ b = 1 => IF s \in 0..6 \/ s \in 128..131
                       THEN codec.dec.ok /\ codec.dec.val.tag = "Data"
                       ELSE codec.dec = Err(InvalidSubType(s))
           /\ b \in 64..254 => codec.dec = Ok(User(b, s))
           /\ b = 255 => codec.dec = Ok(Any)

\* the last rejected type byte, with an arbitrary subtype
C20_Witness ==
    /\ codec.pc = "decoded"
    /\ codec.pair = <<63, 200>>
    /\ codec.dec = Err(InvalidType(63))

\* a User value whose type byte is outside 0x40..=0xfe does not encode
UserTypeRejected ==
    codec.pc = "encoded" /\ codec.ty.tag = "User" /\ codec.ty.raw \notin 64..254 =>
        codec.enc = Err(InvalidUserType(codec.ty.raw))

\* C21 as stated: encode(decode(t, s)) = (t, s) for every accepted pair,
\* decode(encode(v)) = v for every encodable v, and User outside
\* 0x40..=0xfe fails with InvalidUserType.
C21_ExactInverse ==
    /\ codec.pc = "reencoded" => codec.enc = Ok(codec.pair)
    /\ codec.pc = "redecoded" => codec.dec = Ok(codec.ty)
    /\ UserTypeRejected

\* C21, amended: encode(decode(t, s)) = (t, s) for every accepted pair with
\* t /= 0xff, and (0xff, 0x00) for every pair (0xff, s); decode(encode(v))
\* = v for every encodable v; User outside 0x40..=0xfe fails with
\* InvalidUserType.
C21_InverseButAny ==
    /\ codec.pc = "reencoded" =>
          codec.enc = Ok(IF codec.pair[1] = 255 THEN <<255, 0>> ELSE codec.pair)
    /\ codec.pc = "redecoded" => codec.dec = Ok(codec.ty)
    /\ UserTypeRejected

\* Any read with subtype 5 and written back with subtype 0
C21_Witness ==
    /\ codec.pc = "reencoded"
    /\ codec.pair = <<255, 5>>
    /\ codec.dec = Ok(Any)
    /\ codec.enc = Ok(<<255, 0>>)

(***************************************************************************)
(* Claims on the reader and writer state machines (Spec)                   *)
(***************************************************************************)
ReadStep == reader.active /\ reader'.calls = reader.calls + 1
WriteStep ==
    writer.active /\ writer'.calls = writer.calls + 1
    /\ writer'.op \in {"write", "write_md5"}
\* a scan in progress: not Done, and the cursor inside the region
Scanning(st) == st.state # "Done" /\ st.offset < st.end
KnownMagic(buffer) == Take(buffer, 2) \in {ENTRY_MAGIC, MD5_MAGIC, <<255, 255>>}

Exhausted(st) == ReaderIsDone(st) /\ st.offset >= st.end /\ StoredMd5(st) = None

\* C29: a read with the cursor at or past the end, no terminator and no
\* checksum record seen, returns NotEnoughData and leaves the reader Done
\* with the running digest not frozen; actual_md5() and check_md5() are
\* None from then on, tracking enabled or not.
C29_ExhaustedNotFrozen ==
    /\ [][ReadStep /\ ~ReaderIsDone(reader.st) /\ reader.st.offset >= reader.st.end =>
             /\ reader'.res = Err(NotEnoughData)
             /\ Exhausted(reader'.st)
             /\ reader'.st.md5 = reader.st.md5]_vars
    /\ [](reader.active /\ reader.calls > 0 /\ Exhausted(reader.st) =>
             /\ ActualMd5(reader.st) = None
             /\ CheckMd5(reader.st) = None)

\* a tracking reader over a region of three records that read three
\* entries and was called once more
C29_Witness ==
    /\ reader.active
    /\ reader.st.calc_md5
    /\ reader.table.size = 3 * SIZE
    /\ Len(reader.got) = 3
    /\ reader.calls = 4
    /\ reader.res = Err(NotEnoughData)
    /\ Exhausted(reader.st)
    /\ ActualMd5(reader.st) = None

\* C2 as stated: every record a writer over [addr, addr + size) accepts
\* lies inside the region, so it accepts at most size / 32 records.
C2_WriterStaysInRegion ==
    writer.active =>
        /\ \A i \in 1..Len(writer.out) :
              /\ writer.table.addr <= writer.out[i].offset
              /\ writer.out[i].offset + SIZE <= writer.table.addr + writer.table.size
        /\ Len(writer.out) <= max_entries(writer.table)

\* C3: Done is absorbing for the reader and for the writer: from a Done
\* state every call leaves the machine Done with offset(), stored_md5()
\* and actual_md5() unchanged, a read returns NotEnoughData, and a
\* write_entry or write_checksum returns TooManyData.
C3_DoneAbsorbing ==
    [][/\ reader.active /\ ReaderIsDone(reader.st) =>
            /\ ReaderIsDone(reader'.st)
            /\ ReaderOffset(reader'.st) = ReaderOffset(reader.st)
            /\ StoredMd5(reader'.st) = StoredMd5(reader.st)
            /\ ActualMd5(reader'.st) = ActualMd5(reader.st)
            /\ ReadStep => IsErr(reader'.res, NotEnoughData)
       /\ writer.active /\ WriterIsDone(writer.st) =>
            /\ WriterIsDone(writer'.st)
            /\ WriterOffset(writer'.st) = WriterOffset(writer.st)
            /\ WriterActualMd5(writer'.st) = WriterActualMd5(writer.st)
            /\ WriteStep => IsErr(writer'.res, TooManyData)]_vars

\* a reader that met a checksum record at its first read and was read twice more
C3_Witness ==
    /\ reader.active
    /\ reader.calls = 3
    /\ StoredMd5(reader.st) # None
    /\ ReaderOffset(reader.st) = reader.table.addr + SIZE
    /\ IsErr(reader.res, NotEnoughData)
    /\ reader.buf \in EntryRecords

\* C4: during a scan, a record whose first two bytes are no known magic
\* makes read fail with InvalidMagic, leaves the cursor where it was and
\* the reader Done; from then on every read fails.
C4_InvalidMagicIsTerminal ==
    [][reader.active =>
        /\ ReadStep /\ Scanning(reader.st) /\ ~KnownMagic(reader'.buf) =>
              /\ IsErr(reader'.res, InvalidMagic)
              /\ ReaderOffset(reader'.st) = ReaderOffset(reader.st)
              /\ ReaderIsDone(reader'.st)
        /\ ReaderIsDone(reader.st) =>
              /\ ReaderIsDone(reader'.st)
              /\ ReadStep => ~reader'.res.ok]_vars

\* 0x12 0x34 met after one entry
C4_Witness ==
    /\ reader.active
    /\ reader.calls = 2
    /\ reader.buf = R_1234
    /\ IsErr(reader.res, InvalidMagic)
    /\ ReaderOffset(reader.st) = reader.table.addr + SIZE
    /\ ReaderIsDone(reader.st)

\* C5: a record starting 0xFF 0xFF, whatever follows, makes read return
\* NotEnoughData and leaves the reader Done with the cursor where it was;
\* during a scan with tracking enabled it freezes the running digest; and
\* every later read returns NotEnoughData.
C5_RegionEndMarker ==
    [][reader.active =>
        /\ ReadStep /\ Take(reader'.buf, 2) = <<255, 255>> =>
              /\ IsErr(reader'.res, NotEnoughData)
              /\ ReaderOffset(reader'.st) = ReaderOffset(reader.st)
              /\ ReaderIsDone(reader'.st)
        /\ ReadStep /\ Take(reader'.buf, 2) = <<255, 255>> /\ Scanning(reader.st)
             /\ reader.st.calc_md5 /\ ActualMd5(reader.st) = None =>
              ActualMd5(reader'.st) = Some(Md5Compute(reader.st.md5.err))
        /\ ReaderIsDone(reader.st) =>
              /\ ReaderIsDone(reader'.st)
              /\ ReadStep => IsErr(reader'.res, NotEnoughData)]_vars

\* 0xFF 0xFF followed by zeros met after one entry, with tracking enabled
C5_Witness ==
    /\ reader.active
    /\ reader.calls = 2
    /\ reader.buf = R_ffzero
    /\ reader.st.calc_md5
    /\ IsErr(reader.res, NotEnoughData)
    /\ ActualMd5(reader.st) # None
    /\ ReaderOffset(reader.st) = reader.table.addr + SIZE

\* C6: check_md5() is None whenever the stored checksum or the frozen
\* digest is missing, as it is in every state with tracking disabled and
\* in every state before the scan ended, and Some(stored = actual) otherwise.
C6_CheckMd5 ==
    reader.active =>
        /\ reader.st.stored_md5 = None \/ ~reader.st.md5.ok => CheckMd5(reader.st) = None
        /\ reader.st.stored_md5 # None /\ reader.st.md5.ok =>
              CheckMd5(reader.st) = Some(reader.st.stored_md5[1] = reader.st.md5.val)
        /\ ~reader.st.calc_md5 => CheckMd5(reader.st) = None
        /\ ~ReaderIsDone(reader.st) => CheckMd5(reader.st) = None

\* a stored checksum that differs from the digest of one entry
C6_Witness ==
    /\ reader.active
    /\ reader.calls = 2
    /\ reader.buf = R_md5zero
    /\ CheckMd5(reader.st) = Some(FALSE)

\* a write_entry or write_checksum that returned Ok
Written == WriteStep /\ writer'.res.ok

PhaseOk(st) == st.state # "Done" /\ st.offset < st.end
PhaseOffset(st) == IF st.state = "Init" THEN st.offset ELSE st.offset + SIZE

\* C18: write_checksum does the phase check and cursor advance of
\* write_entry (TooManyData when Done or at the region end, no advance on
\* the first call, 32 afterwards) and moves the writer to Done; with
\* tracking disabled the caller's buffer and actual_md5() = None are
\* unchanged; with tracking enabled the buffer holds 0xEB 0xEB, 14 bytes
\* 0xFF and the 16 bytes of the digest, which actual_md5() returns.
C18_WriteChecksum ==
    [][/\ (WriteStep /\ ~PhaseOk(writer.st) =>
               /\ IsErr(writer'.res, TooManyData)
               /\ WriterOffset(writer'.st) = WriterOffset(writer.st)
               /\ writer'.buffer = writer'.before)
       /\ (WriteStep /\ PhaseOk(writer.st) /\ writer'.res.ok =>
               WriterOffset(writer'.st) = PhaseOffset(writer.st))
       /\ (WriteStep /\ PhaseOk(writer.st) /\ writer'.op = "write_md5" =>
               /\ writer'.res.ok
               /\ WriterIsDone(writer'.st)
               /\ IF writer.st.write_md5
                  THEN /\ WriterActualMd5(writer'.st) = Some(Md5Compute(writer.st.md5.err))
                       /\ writer'.buffer = <<235, 235>> \o Fill(255, 14)
                                              \o WriterActualMd5(writer'.st)[1]
                  ELSE /\ WriterActualMd5(writer'.st) = None
                       /\ WriterActualMd5(writer.st) = None
                       /\ writer'.buffer = writer'.before)]_vars

\* write_checksum without tracking, into the buffer of the entry before it
C18_Witness ==
    /\ writer.active
    /\ ~writer.st.write_md5
    /\ writer.op = "write_md5"
    /\ writer.res.ok
    /\ writer.calls = 3
    /\ writer.before = R_factory
    /\ writer.buffer = R_factory
    /\ WriterOffset(writer.st) = writer.table.addr + 64
    /\ WriterIsDone(writer.st)

\* a write_entry that passed the phase check and failed in encoding
EncodeFailed ==
    /\ WriteStep
    /\ writer'.op = "write"
    /\ PhaseOk(writer.st)
    /\ ~writer'.res.ok
\* the last call was such a write_entry
LastEncodeFailed ==
    writer.op = "write" /\ ~writer.res.ok /\ writer.res.err # TooManyData

\* C30: a write_entry that passes the phase check and fails in encoding
\* (InvalidAlignment, InvalidOtaNumber, InvalidUserType) has advanced the
\* writer (Init to Proc on the first call, the cursor by 32 later), has fed
\* nothing to the accumulator and has not made the writer Done; a
\* successful write that follows lands one slot further, and the slot in
\* between holds no record.
C30_FailedWriteAdvances ==
    [][/\ (EncodeFailed =>
             /\ writer'.res.err.kind \in {"InvalidAlignment", "InvalidOtaNumber",
                                          "InvalidUserType"}
             /\ writer'.st.state = "Proc"
             /\ WriterOffset(writer'.st) = PhaseOffset(writer.st)
             /\ writer'.st.md5 = writer.st.md5
             /\ writer'.st # writer.st
             /\ writer'.out = writer.out)
       /\ (Written /\ writer.active /\ LastEncodeFailed =>
             /\ WriterOffset(writer'.st) = WriterOffset(writer.st) + SIZE
             /\ \A i \in 1..Len(writer'.out) :
                   writer'.out[i].offset # WriterOffset(writer.st))]_vars

\* the first write_entry failed in encoding and the second succeeded: the
\* one record of the writer is at base + 32
C30_Witness ==
    /\ writer.active
    /\ writer.calls = 2
    /\ writer.gaps = 1
    /\ writer.op = "write"
    /\ writer.res.ok
    /\ Len(writer.out) = 1
    /\ writer.out[1].offset = writer.table.addr + SIZE
    /\ WriterOffset(writer.st) = writer.table.addr + SIZE

\* a read, during a scan, of a well-formed checksum record
ChecksumRead ==
    /\ ReadStep
    /\ Scanning(reader.st)
    /\ Take(reader'.buf, 2) = MD5_MAGIC
    /\ \A i \in 3..16 : reader'.buf[i] = 255

\* C15: a fresh reader has stored_md5() = None, and stored_md5() changes
\* only in a read of a well-formed checksum record during a scan; that
\* read sets it to Some(the 16 digest bytes of the record), advances the
\* cursor by 32, returns NotEnoughData, leaves the reader Done and, with
\* tracking enabled, actual_md5() at the digest of what was consumed
\* before the record (the record itself is not consumed).
C15_ChecksumStep ==
    /\ reader.active /\ reader.calls = 0 => StoredMd5(reader.st) = None
    /\ [][(ChecksumRead =>
               /\ StoredMd5(reader'.st) = Some(SubSeq(reader'.buf, 17, 32))
               /\ ReaderOffset(reader'.st) = ReaderOffset(reader.st) + 32
               /\ IsErr(reader'.res, NotEnoughData)
               /\ ReaderIsDone(reader'.st)
               /\ ActualMd5(reader'.st) =
                     IF reader.st.calc_md5 THEN Some(Md5Compute(reader.st.md5.err))
                     ELSE None)
           /\ (ReadStep /\ ~ChecksumRead =>
               StoredMd5(reader'.st) = StoredMd5(reader.st))]_vars

\* a checksum record read after two entries, with tracking enabled
C15_Witness ==
    /\ reader.active
    /\ reader.st.calc_md5
    /\ reader.calls = 3
    /\ reader.buf = R_md5ones
    /\ StoredMd5(reader.st) = Some(Fill(17, 16))
    /\ ReaderOffset(reader.st) = reader.table.addr + 96
    /\ CheckMd5(reader.st) = Some(FALSE)

\* a read that got as far as decoding the record and failed there
DecodeFailed ==
    /\ ReadStep
    /\ Scanning(reader.st)
    /\ ~reader'.res.ok
    /\ \/ /\ Take(reader'.buf, 2) = ENTRY_MAGIC
          /\ reader'.res.err.kind \in {"InvalidType", "InvalidSubType", "InvalidString"}
       \/ /\ Take(reader'.buf, 2) = MD5_MAGIC
          /\ reader'.res.err = InvalidMagic

\* C14 as stated: a read that fails to decode a record leaves the reader
\* Done and, with tracking enabled, the digest frozen: actual_md5() is
\* available.
C14_DecodeFailureFinalizes ==
    [][DecodeFailed =>
          /\ ReaderIsDone(reader'.st)
          /\ reader.st.calc_md5 => ActualMd5(reader'.st) # None]_vars

\* what holds of the code: the reader is Done, the digest is left as it was
C14_DecodeFailureEnds ==
    [][DecodeFailed =>
          /\ ReaderIsDone(reader'.st)
          /\ ActualMd5(reader'.st) = ActualMd5(reader.st)
          /\ ActualMd5(reader.st) = None]_vars

(***************************************************************************)
(* Claims on writing a table and reading it back (SpecLaw)                 *)
(***************************************************************************)
\* the read-back has ended: the reader returned NotEnoughData
LawReadBackEnded == reader.active /\ IsErr(reader.res, NotEnoughData)

\* C1 as stated: whenever the writer accepted N entries and write_md5, the
\* reader fed the N + 1 records until NotEnoughData ends with
\* check_md5() = Some(true).
C1_ChecksumLaw == LawReadBackEnded => CheckMd5(reader.st) = Some(TRUE)

\* what holds of the code: the law, for the tables whose checksum record
\* starts inside the region
C1_LawInsideRegion ==
    LawReadBackEnded
      /\ writer.out[Len(writer.out)].offset < writer.table.addr + writer.table.size
    => CheckMd5(reader.st) = Some(TRUE)

(***************************************************************************)
(* Claims on read_storage (SpecStorage)                                    *)
(***************************************************************************)
\* what the device holds, read off its bytes: slot k lies in the region,
\* the entry records at the head of the table, the checksum record after them
InRegion(k) == SIZE * (k - 1) < stor.table.size
IsEntryRecord(b) == Take(b, 2) = ENTRY_MAGIC /\ EntryFromBytes(b).ok
StoredEntries ==
    CHOOSE n \in 0..Len(stor.dev.slots) :
        /\ \A k \in 1..n : InRegion(k) /\ IsEntryRecord(stor.dev.slots[k])
        /\ n < Len(stor.dev.slots) =>
              ~(InRegion(n + 1) /\ IsEntryRecord(stor.dev.slots[n + 1]))
ChecksumFound ==
    /\ StoredEntries < Len(stor.dev.slots)
    /\ InRegion(StoredEntries + 1)
    /\ Md5FromBytes(stor.dev.slots[StoredEntries + 1]).ok
ChecksumMatches ==
    /\ ChecksumFound
    /\ stor.dev.slots[StoredEntries + 1]
         = ChecksumOf(SubSeq(stor.dev.slots, 1, StoredEntries))
ReturnsEntries ==
    /\ stor.out.ok
    /\ stor.out.val = [k \in 1..StoredEntries |-> EntryFromBytes(stor.dev.slots[k]).val]
FailsInvalidMd5 == IsErr(stor.out, PartitionError(InvalidMd5))
\* the collect stopped on an error of the scan, which read_storage returned
ScanFailed ==
    /\ ~stor.out.ok
    /\ stor.by = "collect"
    /\ stor.out.err \notin {PartitionError(NotEnoughData), PartitionError(InvalidMd5)}

\* C7 as stated: with None the result is never InvalidMd5; with Some(false)
\* it is InvalidMd5 exactly when a checksum record was found and differs;
\* with Some(true) the entries are returned only if a checksum record was
\* found and matches, and the result is InvalidMd5 otherwise; InvalidMd5
\* comes from the verification step only.
C7_HonoursCheckMd5Always ==
    stor.pc = "done" =>
        /\ stor.check_md5 = None => ~FailsInvalidMd5
        /\ stor.check_md5 = Some(FALSE) =>
              (FailsInvalidMd5 <=> ChecksumFound /\ ~ChecksumMatches)
        /\ stor.check_md5 = Some(TRUE) =>
              /\ stor.out.ok => ChecksumMatches /\ ReturnsEntries
              /\ ~ChecksumMatches => FailsInvalidMd5
        /\ FailsInvalidMd5 => stor.by = "verify"

\* C7 amended: as stated, except that with Some(true) a scan that stopped
\* on a partition-format error other than NotEnoughData or on a storage
\* error returns that error instead of InvalidMd5.
C7_HonoursCheckMd5 ==
    stor.pc = "done" =>
        /\ stor.check_md5 = None => ~FailsInvalidMd5
        /\ stor.check_md5 = Some(FALSE) =>
              (FailsInvalidMd5 <=> ChecksumFound /\ ~ChecksumMatches)
        /\ stor.check_md5 = Some(TRUE) =>
              /\ stor.out.ok => ChecksumMatches /\ ReturnsEntries
              /\ ~ChecksumMatches => FailsInvalidMd5 \/ ScanFailed
        /\ FailsInvalidMd5 => stor.by = "verify"

\* a mandatory checksum, found after an entry and differing: InvalidMd5
C7_Witness ==
    /\ stor.pc = "done"
    /\ stor.check_md5 = Some(TRUE)
    /\ ChecksumFound /\ ~ChecksumMatches
    /\ StoredEntries >= 1
    /\ Len(stor.result) = StoredEntries
    /\ FailsInvalidMd5

(***************************************************************************)
(* Claims on write_storage and write_nor_flash (SpecWrite)                 *)
(***************************************************************************)
\* the call returned Ok
Wrote == stor.pc = "done" /\ stor.out.ok
\* the records of the partitions, in input order, then their checksum record
ExpectedEntries == [i \in 1..Len(stor.partitions) |-> Encoded(stor.partitions[i])]
ExpectedRecords ==
    IF stor.write_md5 THEN Append(ExpectedEntries, ChecksumOf(ExpectedEntries))
    ELSE ExpectedEntries
\* the records the call put on the device, and where the first one went
RecordsWritten ==
    IF stor.fn = "write_storage"
    THEN [i \in 1..Len(stor.dev.writes) |-> stor.dev.writes[i].data]
    ELSE IF stor.dev.writes = <<>> THEN <<>>
    ELSE stor.dev.writes[1].data.head
\* record i of the call went to device address a
RecordAt(i, a) ==
    IF stor.fn = "write_storage" THEN stor.dev.writes[i].offset = a
    ELSE stor.dev.writes[1].offset + SIZE * (i - 1) = a

\* C12 as stated: n entries and the checksum record are emitted as n + 1
\* records in consecutive 32-byte slots starting at the table base, in
\* input order, the checksum record last; write_nor_flash fills the rest
\* of the sector with zero.
C12_RecordsFromBase ==
    Wrote /\ stor.write_md5 =>
        /\ RecordsWritten = ExpectedRecords
        /\ \A i \in 1..Len(RecordsWritten) :
              RecordAt(i, stor.table.addr + SIZE * (i - 1))
        /\ stor.fn = "write_nor_flash" => stor.dev.writes[1].data.rest = 0

\* what holds of the code: the same, with the sector of write_nor_flash
\* written at device address 0
C12_RecordsInOrder ==
    Wrote =>
        /\ RecordsWritten = ExpectedRecords
        /\ \A i \in 1..Len(RecordsWritten) :
              RecordAt(i, (IF stor.fn = "write_storage" THEN stor.table.addr ELSE 0)
                          + SIZE * (i - 1))
        /\ stor.fn = "write_nor_flash" =>
              Len(stor.dev.writes) = 1 /\ stor.dev.writes[1].data.rest = 0

\* the table has room for the records of the call
TableHasRoom == Len(ExpectedRecords) <= max_entries(stor.table)
\* the read returned exactly the entries that were written
ReadBackSame == stor.back = Ok(stor.partitions)

\* C27 as stated: write_nor_flash followed by read_nor_flash with the same
\* table on the same storage returns exactly the entries written, for
\* every addr.
C27_NorFlashRoundTrip ==
    stor.pc = "read" /\ stor.fn = "write_nor_flash" /\ TableHasRoom
    /\ (stor.check_md5 = Some(TRUE) => stor.write_md5)
    => ReadBackSame

\* what holds of the code, on a device that holds the region and the record
\* after it: the round trip of write_storage for every addr, and that of
\* write_nor_flash for addr = 0 when the checksum record is written or the
\* entries fill the region (the zero fill after them is no terminator)
C27_RoundTripWhereEnded ==
    stor.pc = "read" /\ TableHasRoom
    /\ stor.dev.capacity >= stor.table.addr + stor.table.size + SIZE
    /\ (stor.check_md5 = Some(TRUE) => stor.write_md5)
    /\ (stor.fn = "write_nor_flash" =>
          /\ stor.table.addr = 0
          /\ stor.write_md5 \/ SIZE * Len(stor.partitions) >= stor.table.size)
    => ReadBackSame

C13_ByteCount == Wrote => stor.out.val = SIZE * Len(ExpectedRecords)

\* what holds of the code: the count is one record short of the table
C13_ByteCountShort ==
    Wrote => stor.out.val =
                IF ExpectedRecords = <<>> THEN 0 ELSE SIZE * (Len(ExpectedRecords) - 1)

\* write_storage failed on entry stor.k + 1
FailedAtEntry ==
    /\ stor.pc = "done" /\ stor.fn = "write_storage"
    /\ ~stor.out.ok
    /\ stor.k < Len(stor.partitions)

\* C23: when write_storage fails at entry k, the device holds the records
\* of entries 1..k-1, each at its slot, and nothing else: nothing was taken
\* back, and nothing was written for entry k, a later entry or the checksum.
C23_NoRollback ==
    FailedAtEntry =>
        /\ Len(stor.dev.writes) = stor.k
        /\ \A i \in 1..stor.k :
              /\ stor.dev.writes[i].data = Encoded(stor.partitions[i])
              /\ stor.dev.writes[i].offset = stor.table.addr + SIZE * (i - 1)

\* the second entry failed, in encoding or in the storage write, with the
\* first one on the device
C23_Witness ==
    /\ FailedAtEntry
    /\ stor.k = 1
    /\ stor.out.err.op = "PartitionError"
    /\ stor.out.err.err = InvalidAlignment
    /\ stor.write_md5
    /\ Len(stor.dev.writes) = 1
    /\ stor.dev.writes[1].data = Encoded(E_nvs)

\* the same with the device refusing the second record
C23_WitnessStorage ==
    /\ FailedAtEntry
    /\ stor.k = 1
    /\ stor.out.err.op = "StorageError"
    /\ Len(stor.dev.writes) = 1

(***************************************************************************)
(* Claims on the storage iterator (SpecIter)                               *)
(***************************************************************************)
IsEntryItem(item) == item # None /\ item[1].ok
IsFormatError(item) == item # None /\ ~item[1].ok /\ item[1].err.op = "PartitionError"

\* C26: next() yields Some(Ok(entry)) for the entries in table order, None
\* at the end of the sequence and never NotEnoughData as an item; after a
\* partition-format error, yielded once, every later next() returns None;
\* once the reader state is Done no storage read is issued.
C26_IteratorProtocol ==
    /\ [](stor.pc = "iter" =>
            \A i \in 1..Len(stor.items) :
               /\ stor.items[i] # Some(Err(PartitionError(NotEnoughData)))
               /\ IsEntryItem(stor.items[i]) =>
                     /\ \A j \in 1..(i - 1) : IsEntryItem(stor.items[j])
                     /\ stor.items[i][1] = EntryFromBytes(stor.dev.slots[i])
               /\ IsFormatError(stor.items[i]) \/ stor.items[i] = None =>
                     \A j \in (i + 1)..Len(stor.items) : stor.items[j] = None)
    /\ [][stor.pc = "iter" /\ ReaderIsDone(stor.iter) =>
             stor'.reads = stor.reads /\ stor'.items = Append(stor.items, None)]_vars

\* an entry, a record with a type byte that does not decode, then None twice
C26_Witness ==
    /\ stor.pc = "iter"
    /\ stor.dev.slots = <<R_nvs, R_type2, R_erased>>
    /\ stor.items = <<Some(EntryFromBytes(R_nvs)), Some(Err(PartitionError(InvalidType(2)))),
                      None, None>>
    /\ Len(stor.reads) = 2

\* the 32 bytes at address a lie wholly inside the region of the table
InsideRegion(a) ==
    stor.table.addr <= a /\ a + SIZE <= stor.table.addr + stor.table.size
\* the entries yielded so far
EntriesYielded == {i \in 1..Len(stor.items) : IsEntryItem(stor.items[i])}

\* C28 as stated: every storage read the iterator issues and every record
\* the reader accepts lies wholly inside [addr, addr + size), so at most
\* max_entries() = size / 32 entries are yielded.
C28_ReadsInsideRegion ==
    stor.pc = "iter" =>
        /\ \A i \in 1..Len(stor.reads) : InsideRegion(stor.reads[i])
        /\ \A i \in EntriesYielded : InsideRegion(stor.table.addr + SIZE * (i - 1))
        /\ Cardinality(EntriesYielded) <= max_entries(stor.table)

\* what holds of the code: a read or an accepted record starts at or
\* before the end of the region, and a read at the end yields no entry
C28_ReadsStartByEnd ==
    stor.pc = "iter" =>
        /\ \A i \in 1..Len(stor.reads) :
              /\ stor.table.addr <= stor.reads[i]
              /\ stor.reads[i] < stor.table.addr + stor.table.size + SIZE
              /\ stor.reads[i] >= stor.table.addr + stor.table.size =>
                    ~IsEntryItem(stor.items[i])
        /\ \A i \in EntriesYielded :
              stor.table.addr + SIZE * (i - 1) < stor.table.addr + stor.table.size

(***************************************************************************)
(* Claims on the table copy (SpecCopy)                                     *)
(***************************************************************************)
\* a canonical entry record, read off its bytes: it decodes, its offset is
\* aligned for its type, its unused flag bits are zero, its name NUL-padded
CanonicalRecord(b) ==
    /\ IsEntryRecord(b)
    /\ FromLe32(SubSeq(b, 5, 8)) % (IF b[3] = 0 THEN 65536 ELSE 4096) = 0
    /\ b[29] \in {0, 1} /\ SubSeq(b, 30, 32) = <<0, 0, 0>>
    /\ \A i \in 13..28 : b[i] = 0 => \A j \in i..28 : b[j] = 0
\* the source is n canonical entry records followed by their checksum record
WellFormedSource(n) ==
    /\ n < Len(stor.src)
    /\ Md5FromBytes(stor.src[n + 1]).ok
    /\ \A k \in 1..n : CanonicalRecord(stor.src[k])
    /\ stor.src[n + 1] = ChecksumOf(SubSeq(stor.src, 1, n))
AnySubtypeZero(n) == \A k \in 1..n : stor.src[k][3] = 255 => stor.src[k][4] = 0
\* no panic; what has been written is the source, record by record, at the
\* source's offsets; the copy ends with n + 1 records written
Reproduced(n) ==
    /\ stor.pc # "panic"
    /\ \A i \in 1..Len(writer.out) :
          writer.out[i] = [offset |-> reader.table.addr + SIZE * (i - 1),
                           data |-> stor.src[i]]
    /\ stor.pc = "done" => Len(writer.out) = n + 1

\* C8 as stated: the lockstep copy of a well-formed source table produces
\* destination records byte-identical to the source records, checksum
\* record included, at identical byte offsets.
C8_CopyReproducesCanonical ==
    \A n \in 0..MaxEntries : stor.pc # "idle" /\ WellFormedSource(n) => Reproduced(n)

\* C8 amended: ... of a well-formed source table whose records of type 0xff
\* carry the subtype byte 0x00 ...
C8_CopyReproduces ==
    \A n \in 0..MaxEntries :
        stor.pc # "idle" /\ WellFormedSource(n) /\ AnySubtypeZero(n) => Reproduced(n)

\* a finished copy of two entries, one of type Any, and their checksum
C8_Witness ==
    /\ stor.pc = "done"
    /\ WellFormedSource(2) /\ AnySubtypeZero(2)
    /\ stor.src[1] = R_any0
    /\ stor.src[2] = R_factory
    /\ Len(writer.out) = 3
    /\ writer.out[3].data = stor.src[3]

\* the copy is in lockstep: k reads and k writes, all of them successful
Lockstep(k) == stor.pc = "copy" /\ reader.calls = k /\ writer.calls = k

\* C17 as stated: after k successful reads and k successful writes in
\* lockstep, writer.offset() = reader.offset().
C17_SameCursor ==
    \A k \in 0..(MaxEntries + 1) :
        Lockstep(k) => WriterOffset(writer.st) = ReaderOffset(reader.st)

\* C17 amended: the cursor of the writer points at the slot just written,
\* one slot behind the reader's: after k >= 1 successful reads and k
\* successful writes in lockstep writer.offset() = reader.offset() - 32;
\* before any call both are at the base.
C17_CursorOneBehind ==
    \A k \in 0..(MaxEntries + 1) :
        Lockstep(k) =>
            /\ ReaderOffset(reader.st) = reader.table.addr + SIZE * k
            /\ WriterOffset(writer.st) =
                  IF k = 0 THEN ReaderOffset(reader.st)
                  ELSE ReaderOffset(reader.st) - SIZE

\* two entries copied, the copy still running
C17_Witness ==
    /\ Lockstep(2)
    /\ reader.res.ok /\ writer.res.ok
    /\ Len(writer.out) = 2
    /\ ReaderOffset(reader.st) = reader.table.addr + 64
    /\ WriterOffset(writer.st) = reader.table.addr + 32

=============================================================================
